---- MODULE Spec2Model ----
(***************************************************************************)
(* A model of geoApi's symbology engine (src/src/symbology.js):            *)
(*   - searchRenderer / getGraphicIcon / getGraphicSymbol: the matching of *)
(*     a feature's attributes against an enhanced renderer (SpecSearch);   *)
(*   - enhanceRenderer: the attachment of legend icons to a renderer once  *)
(*     every legend item promise has resolved (SpecEnhance);               *)
(*   - getZoomLevel: the search of the level of detail of a scale limit    *)
(*     (SpecZoom);                                                         *)
(*   - rendererToLegend / symbolToLegend: the drawing of the symbols of a  *)
(*     renderer in off-screen containers (SpecLegend);                     *)
(*   - generateWMSSymbology: the legend entry of a WMS image (SpecWMS);    *)
(*   - mapServerToLocalLegend: the legend made of a map server's legend    *)
(*     (SpecMapServer);                                                    *)
(*   - rendererToLegend, enhanceRenderer and getGraphicIcon on one         *)
(*     renderer (SpecIcons);                                               *)
(* and of the feature class of src/src/layer/layerRec/basicFC.js:          *)
(*   - getAttribs / getLayerData / getFormattedAttributes: the promises    *)
(*     cached (SpecAttribs);                                               *)
(*   - loadSymbology: the symbology made of the legend of the map server   *)
(*     (SpecSymbology).                                                    *)
(*                                                                         *)
(* JavaScript values are records [t, n, s]: t is the type tag, n the       *)
(* payload of a number (in tenths, so that 15 is 1.5) or the size of an    *)
(* svg container, s the payload of a string, the name of an object or the  *)
(* content of an svg document.                                             *)
(***************************************************************************)
EXTENDS Integers, Sequences, FiniteSets

VARIABLES
    renderer,      \* the renderer object (modified in place by enhanceRenderer)
    attributes,    \* the attributes of the last getGraphicIcon/getGraphicSymbol call
    pc,            \* the last operation called: "idle", "getGraphicIcon", "getGraphicSymbol"
    renderInfo,    \* what searchRenderer returned (or that it threw) in that call
    ret,           \* what the call returned (or that it threw)
    legend,        \* enhanceRenderer: legend.layers[0].legend, the data of each legend item
    legItem,       \* enhanceRenderer: the state of each promise of legendItemPromises
    thenOrder,     \* enhanceRenderer: the legend items whose callback ran, in the order they ran
    legendLookup,  \* enhanceRenderer: the lookup object of legend labels to svg code
    enhancing,     \* enhanceRenderer: the state of the promise it returned
    lods,          \* getZoomLevel: the scale of each level of detail (lods[i].scale), largest index last
    maxScale,      \* getZoomLevel: the scale limit
    found,         \* getZoomLevel: the local variable found
    currentLod,    \* getZoomLevel: the local variable currentLod
    lowLod,        \* getZoomLevel: the local variable lowLod
    highLod,       \* getZoomLevel: the local variable highLod
    iter,          \* getZoomLevel: how many times the body of the while loop ran
    zpc,           \* getZoomLevel: "idle", "while", "returned", "threw"
    zret,          \* getZoomLevel: the index returned
    toLegend,      \* rendererToLegend: "idle", "returned", "threw"
    layerId,       \* rendererToLegend: legend.layers[0].layerId
    calls,         \* the calls of symbolToLegend made, in order: the symbol and the label of each
    body,          \* the containers attached to window.document.body (the number of their call)
    drawing,       \* per call: the state of what symbolTypes[symbol.type]() returned
    item,          \* per call: the state of the promise symbolToLegend returned
    jobs,          \* the promise jobs queued: the calls whose then/catch callback is to run
    wmsName,       \* generateWMSSymbology: the argument name
    wmsUri,        \* generateWMSSymbology: the argument imageUri
    wmsPhase,      \* generateWMSSymbology: "idle", "fetching", "loading", "done"
    symbologyItem, \* generateWMSSymbology: the object symbologyItem
    wmsPromise,    \* generateWMSSymbology: the state of the promise it returned
    serverLegend,  \* mapServerToLocalLegend: the layers of the legend the server holds
    layerIndex,    \* mapServerToLocalLegend: the argument layerIndex
    request,       \* mapServerToLocalLegend: the request of getMapServerLegend: "idle", "pending",
                   \* "resolved", "resolved with error", "failed"
    localLegend,   \* mapServerToLocalLegend: the state of the promise it returned
    layerType,     \* BasicFC: this.layerType
    attribData,    \* BasicFC: this._layerPackage._attribData, the promise cached (the number of
                   \* its request; 0: the property is not set)
    layerData,     \* BasicFC: this._layerPackage.layerData, likewise
    loadIsDone,    \* BasicFC: this._layerPackage.loadIsDone
    formattedAttributes, \* BasicFC: this._formattedAttributes, the promise cached (its index
                   \* in formatted; 0: the property is not set)
    requests,      \* BasicFC: the web requests issued, in order: the function that issued it,
                   \* its state and the promise that function made for it
    formatted,     \* BasicFC: the promises getFormattedAttributes made, in order: the
                   \* requests each waits for and its state
    fcCalls,       \* BasicFC: the calls made, in order: the function, what it returned and
                   \* whether the call was made by getFormattedAttributes
    fcUrl,         \* BasicFC: this._parent._layer.url
    fcIdx,         \* BasicFC: this._idx
    mergeAllLayers, \* loadSymbology: the argument mergeAllLayers
    loadPhase,     \* loadSymbology: "idle", "called", "threw"
    fcSymbology,   \* BasicFC: this.symbology (the label of each of its entries)
    symbologyLoad  \* loadSymbology: the state of the promise it returned

searchVars == <<attributes, pc, renderInfo, ret>>
enhanceVars == <<legend, legItem, thenOrder, legendLookup, enhancing>>
zoomVars == <<lods, maxScale, found, currentLod, lowLod, highLod, iter, zpc, zret>>
legendVars == <<toLegend, layerId, calls, body, drawing, item, jobs>>
wmsVars == <<wmsName, wmsUri, wmsPhase, symbologyItem, wmsPromise>>
mapVars == <<serverLegend, layerIndex, request, localLegend>>
attribVars == <<layerType, attribData, layerData, loadIsDone, formattedAttributes,
                requests, formatted, fcCalls>>
symbologyVars == <<fcUrl, fcIdx, mergeAllLayers, loadPhase, fcSymbology, symbologyLoad>>
fcVars == <<attribVars, symbologyVars>>
\* the variables that searchRenderer and enhanceRenderer do not touch
otherVars == <<zoomVars, legendVars, wmsVars, mapVars, fcVars>>
vars == <<renderer, searchVars, enhanceVars, otherVars>>

----------------------------------------------------------------------------
(* Bounds of the model *)

\* the most branches (uniqueValueInfos / classBreakInfos) of a renderer
MaxBranches == 2
\* the greatest whole number among the class break bounds and feature values
MaxNum == 3
\* the most items of a legend
MaxLegend == 2

----------------------------------------------------------------------------
(* JavaScript values *)

Undefined == [t |-> "undefined", n |-> 0, s |-> ""]
Null == [t |-> "null", n |-> 0, s |-> ""]
NaN == [t |-> "number", n |-> 0, s |-> "NaN"]
Num(k) == [t |-> "number", n |-> k, s |-> ""]
Str(x) == [t |-> "string", n |-> 0, s |-> x]
Obj(name) == [t |-> "object", n |-> 0, s |-> name]
Svg(size, content) == [t |-> "svg", n |-> size, s |-> content]
\* the TypeError a call raises instead of returning
TypeError == [t |-> "TypeError", n |-> 0, s |-> ""]

\* the states of a promise; NoPromise: the call that was to return it threw
Pending == [state |-> "pending", value |-> Undefined]
Fulfilled(v) == [state |-> "fulfilled", value |-> v]
Rejected(e) == [state |-> "rejected", value |-> e]
NoPromise == [state |-> "none", value |-> Undefined]

\* the number 1 (numbers are counted in tenths)
One == 10

SIMPLE == "simple"
UNIQUE_VALUE == "uniqueValue"
CLASS_BREAKS == "classBreaks"
CONTAINER_SIZE == 32

Digit == <<"0", "1", "2", "3", "4", "5", "6", "7", "8", "9">>

\* the decimal digits of a natural number
RECURSIVE IntToString(_)
IntToString(k) ==
    IF k < 10 THEN Digit[k + 1]
    ELSE IntToString(k \div 10) \o Digit[(k % 10) + 1]

\* Number.prototype.toString of a non-negative number with at most one decimal
NumberToString(v) ==
    IF v = NaN THEN "NaN"
    ELSE IntToString(v.n \div One)
         \o (IF v.n % One = 0 THEN "" ELSE "." \o Digit[(v.n % One) + 1])

\* the string a value becomes when it is concatenated to a string or used as a property key
StringOf(v) ==
    CASE v.t = "undefined" -> "undefined"
      [] v.t = "null" -> "null"
      [] v.t = "number" -> NumberToString(v)
      [] v.t = "string" -> v.s
      [] OTHER -> "[object Object]"

\* the numbers the model's strings can denote
Numerals == 0..((MaxNum + 1) * One + 9)

\* parseFloat: the number a value's string denotes, NaN when it denotes none
\* (the strings of the model are the decimal form of a number or hold no digit)
parseFloat(v) ==
    LET str == StringOf(v)
        m == {k \in Numerals : NumberToString(Num(k)) = str}
    IN  IF m = {} THEN NaN ELSE Num(CHOOSE k \in m : TRUE)

\* the comparisons of numbers: every comparison with NaN is false
Less(a, b) == a # NaN /\ b # NaN /\ a.n < b.n
LessEq(a, b) == a # NaN /\ b # NaN /\ a.n <= b.n
Greater(a, b) == Less(b, a)
Minus(a, b) == IF a = NaN \/ b = NaN THEN NaN ELSE Num(a.n - b.n)

\* a value in a condition: undefined, null, NaN, 0 and '' are falsy
Truthy(v) ==
    CASE v.t = "undefined" -> FALSE
      [] v.t = "null" -> FALSE
      [] v.t = "number" -> v # NaN /\ v.n # 0
      [] v.t = "string" -> v.s # ""
      [] OTHER -> TRUE

\* the sequences over S of length at most n
SeqsUpTo(S, n) == UNION {[1..k -> S] : k \in 0..n}

\* Array.prototype.find: the first of the indexes that pass the test, 0 when none does
FirstIndex(hits) ==
    IF hits = {} THEN 0 ELSE CHOOSE i \in hits : \A j \in hits : i <= j

\* attributes[field]: a field that is not a key of the attributes reads undefined
Attr(attrs, field) ==
    IF StringOf(field) \in DOMAIN attrs THEN attrs[StringOf(field)] ELSE Undefined

----------------------------------------------------------------------------
(* searchRenderer, getGraphicIcon, getGraphicSymbol *)

\* the first part of the key: the field1 value, '' for null, toString() of
\* anything else that is not a string; undefined has no toString
graphicKeyField1(attrs, r) ==
    LET v == Attr(attrs, r.field1)
        k == IF v = Null THEN Str("") ELSE v
    IN  IF k.t = "string" THEN k
        ELSE IF k.t = "undefined" THEN TypeError
        ELSE Str(StringOf(k))

\* graphicKey with the field3 test beside the field2 test instead of inside it
graphicKeyUnnested(attrs, r) ==
    LET k1 == graphicKeyField1(attrs, r)
        k2 == IF Truthy(r.field2)
              THEN Str(k1.s \o ", " \o StringOf(Attr(attrs, r.field2)))
              ELSE k1
        k3 == IF Truthy(r.field3)
              THEN Str(k2.s \o ", " \o StringOf(Attr(attrs, r.field3)))
              ELSE k2
    IN  IF k1 = TypeError THEN TypeError ELSE k3

\* the key value of the graphic, comma-space delimited if multiple fields
graphicKey(attrs, r) ==
    LET k1 == graphicKeyField1(attrs, r)
        k2 == Str(k1.s \o ", " \o StringOf(Attr(attrs, r.field2)))
        k3 == Str(k2.s \o ", " \o StringOf(Attr(attrs, r.field3)))
    IN  IF k1 = TypeError THEN TypeError
        ELSE IF Truthy(r.field2)
             THEN (IF Truthy(r.field3) THEN k3 ELSE k2)
             ELSE k1

\* uniqueValueInfos.find(uvi => uvi.value === graphicKey), as an index (0: none)
findUvi(r, key) ==
    FirstIndex({index \in 1..Len(r.uniqueValueInfos) :
                    r.uniqueValueInfos[index].value = key})

\* belowRange with the check of the low end left out
belowRangeUnchecked(gVal, lower) == FALSE

\* gVal < lower: outside of the range on the low end
belowRange(gVal, lower) == Less(gVal, lower)

\* inClassBreak with the upper bound excluded
inClassBreakRightOpen(gVal, minSplit, cbi) ==
    Greater(gVal, minSplit) /\ Less(gVal, cbi.classMaxValue)

\* gVal > minSplits[index] && gVal <= cbi.classMaxValue
inClassBreak(gVal, minSplit, cbi) ==
    Greater(gVal, minSplit) /\ LessEq(gVal, cbi.classMaxValue)

\* classBreakInfos.find(...), as an index (0: none)
findCbi(r, gVal) ==
    LET lower == r.minValue
        minSplits == <<Minus(lower, Num(One))>>
                     \o [i \in 1..Len(r.classBreakInfos) |-> r.classBreakInfos[i].classMaxValue]
    IN  FirstIndex({index \in 1..Len(r.classBreakInfos) :
                        inClassBreak(gVal, minSplits[index], r.classBreakInfos[index])})

\* svgjs(document.createElement('div')).size(CONTAINER_SIZE, CONTAINER_SIZE).svg()
EmptySvg == Svg(CONTAINER_SIZE, "")

\* emptyIfUndefined with the substitution left out
emptyIfUndefinedKept(svgcode) == svgcode

\* an empty svg graphic in case nothing is found
emptyIfUndefined(svgcode) ==
    IF svgcode.t = "undefined" THEN EmptySvg ELSE svgcode

Returned(svgcode, symbol) == [threw |-> FALSE, svgcode |-> svgcode, symbol |-> symbol]
Thrown == [threw |-> TRUE, svgcode |-> Undefined, symbol |-> Undefined]

searchRenderer(attrs, r) ==
    LET match ==
          CASE r.type = SIMPLE -> Returned(r.svgcode, r.symbol)
            [] r.type = UNIQUE_VALUE ->
                 LET key == graphicKey(attrs, r)
                     i == findUvi(r, key)
                 IN  IF key = TypeError THEN Thrown
                     ELSE IF i # 0
                          THEN Returned(r.uniqueValueInfos[i].svgcode, r.uniqueValueInfos[i].symbol)
                          ELSE Returned(r.defaultsvgcode, r.defaultSymbol)
            [] r.type = CLASS_BREAKS ->
                 LET gVal == parseFloat(Attr(attrs, r.field))
                     i == findCbi(r, gVal)
                 IN  IF belowRange(gVal, r.minValue) \/ i = 0
                     THEN Returned(r.defaultsvgcode, r.defaultSymbol)
                     ELSE Returned(r.classBreakInfos[i].svgcode, r.classBreakInfos[i].symbol)
            [] OTHER -> Returned(Undefined, Obj("{}"))
    IN  IF match.threw THEN match
        ELSE Returned(emptyIfUndefined(match.svgcode), match.symbol)

\* a call of getGraphicIcon(attributes, renderer): the function reads the renderer
\* and changes nothing, so one call per behaviour shows all it can do
getGraphicIcon(attrs) ==
    /\ pc = "idle"
    /\ pc' = "getGraphicIcon"
    /\ attributes' = attrs
    /\ renderInfo' = searchRenderer(attrs, renderer)
    /\ ret' = IF renderInfo'.threw THEN TypeError ELSE renderInfo'.svgcode
    /\ UNCHANGED <<renderer, enhanceVars, otherVars>>

\* a call of getGraphicSymbol(attributes, renderer)
getGraphicSymbol(attrs) ==
    /\ pc = "idle"
    /\ pc' = "getGraphicSymbol"
    /\ attributes' = attrs
    /\ renderInfo' = searchRenderer(attrs, renderer)
    /\ ret' = IF renderInfo'.threw THEN TypeError ELSE renderInfo'.symbol
    /\ UNCHANGED <<renderer, enhanceVars, otherVars>>

----------------------------------------------------------------------------
(* The renderers and the attributes of the matching specification *)

\* a renderer with no property set
BlankRenderer ==
    [type |-> "", label |-> Undefined, symbol |-> Undefined, svgcode |-> Undefined,
     field1 |-> Undefined, field2 |-> Undefined, field3 |-> Undefined,
     uniqueValueInfos |-> <<>>,
     field |-> Undefined, minValue |-> Undefined, classBreakInfos |-> <<>>,
     defaultSymbol |-> Undefined, defaultLabel |-> Undefined, defaultsvgcode |-> Undefined]

\* which icons a renderer carries: none, those of its branches, all
IconModes == {"none", "branches", "all"}

BranchIcon(mode, i) ==
    IF mode = "none" THEN Undefined ELSE Svg(CONTAINER_SIZE, "icon" \o IntToString(i))
DefaultIcon(mode) ==
    IF mode = "all" THEN Svg(CONTAINER_SIZE, "default icon") ELSE Undefined
BranchSymbol(i) == Obj("symbol" \o IntToString(i))
BranchLabel(i) == Str("label" \o IntToString(i))
DefaultSymbols == {Undefined, Obj("defaultSymbol")}

SimpleRenderers ==
    {[BlankRenderer EXCEPT !.type = SIMPLE, !.symbol = Obj("symbol"),
                           !.label = Str("label"),
                           !.svgcode = BranchIcon(mode, 1)] : mode \in IconModes}

\* the keys of the branches: some a key of the attributes below, some not
BranchValues == {Str("a"), Str("1"), Str(""), Str("a, b"), Str("a, b, c")}

UniqueValueRenderers ==
    {[BlankRenderer EXCEPT
        !.type = UNIQUE_VALUE, !.field1 = Str("f1"), !.field2 = f2, !.field3 = f3,
        !.uniqueValueInfos =
            [i \in 1..Len(vals) |->
                [value |-> vals[i], label |-> BranchLabel(i),
                 symbol |-> BranchSymbol(i), svgcode |-> BranchIcon(mode, i)]],
        !.defaultSymbol = ds, !.defaultsvgcode = DefaultIcon(mode)]
     : f2 \in {Undefined, Str("f2")}, f3 \in {Undefined, Str("f3")},
       vals \in SeqsUpTo(BranchValues, MaxBranches),
       mode \in IconModes, ds \in DefaultSymbols}

\* the whole numbers 1..MaxNum
WholeNumbers == {Num(k * One) : k \in 1..MaxNum}

ClassBreaksRenderers ==
    {[BlankRenderer EXCEPT
        !.type = CLASS_BREAKS, !.field = Str("f"), !.minValue = lower,
        !.classBreakInfos =
            [i \in 1..Len(maxes) |->
                [classMaxValue |-> maxes[i], label |-> BranchLabel(i),
                 symbol |-> BranchSymbol(i), svgcode |-> BranchIcon(mode, i)]],
        !.defaultSymbol = ds, !.defaultsvgcode = DefaultIcon(mode)]
     : lower \in {Num(One), Num(2 * One)},
       maxes \in SeqsUpTo(WholeNumbers, MaxBranches),
       mode \in IconModes, ds \in DefaultSymbols}

\* a renderer of a type the module does not know
OtherRenderers == {[BlankRenderer EXCEPT !.type = "heatmap"]}

SearchRenderers ==
    SimpleRenderers \cup UniqueValueRenderers \cup ClassBreaksRenderers \cup OtherRenderers

NoAttributes == [f1 |-> Undefined, f2 |-> Undefined, f3 |-> Undefined, f |-> Undefined]

\* the attributes of a feature of a unique value layer; undefined: no such attribute
KeyAttributes ==
    {[NoAttributes EXCEPT !.f1 = v1, !.f2 = v2, !.f3 = v3]
     : v1 \in {Undefined, Null, Num(One), Str("a")},
       v2 \in {Undefined, Str("b")},
       v3 \in {Undefined, Str("c")}}

\* the attributes of a feature of a class breaks layer: the halves from 0 to
\* MaxNum + 1, as numbers and (the whole ones) as strings, and no number
NumberAttributes ==
    {[NoAttributes EXCEPT !.f = v]
     : v \in {Num(k * 5) : k \in 0..(2 * (MaxNum + 1))}
             \cup {Str(NumberToString(w)) : w \in WholeNumbers}
             \cup {Undefined, Null, Str("abc")}}

SearchAttributes(r) ==
    IF r.type = CLASS_BREAKS THEN NumberAttributes ELSE KeyAttributes

----------------------------------------------------------------------------
(* The matching specification: a renderer, then a lookup *)

\* the keys the lookup object can get: the labels of the model, and the key
\* that an undefined label reads
LookupKeys == {"", "A", "B", "undefined"}

\* const legendLookup = {}
EmptyLookup == [k \in LookupKeys |-> Undefined]

\* getZoomLevel was not called
ZoomIdle ==
    /\ lods = <<>>
    /\ maxScale = 0
    /\ found = FALSE
    /\ currentLod = 0
    /\ lowLod = 0
    /\ highLod = 0
    /\ iter = 0
    /\ zpc = "idle"
    /\ zret = 0

\* rendererToLegend was not called: no container is attached to the body
LegendIdle ==
    /\ toLegend = "idle"
    /\ layerId = Undefined
    /\ calls = <<>>
    /\ body = {}
    /\ drawing = <<>>
    /\ item = <<>>
    /\ jobs = <<>>

\* generateWMSSymbology was not called
WmsIdle ==
    /\ wmsName = Undefined
    /\ wmsUri = Undefined
    /\ wmsPhase = "idle"
    /\ symbologyItem = [name |-> Undefined, svgcode |-> Null]
    /\ wmsPromise = NoPromise

\* mapServerToLocalLegend was not called
MapIdle ==
    /\ serverLegend = <<>>
    /\ layerIndex = Undefined
    /\ request = "idle"
    /\ localLegend = NoPromise

\* no function of the feature class was called
AttribIdle ==
    /\ layerType = Undefined
    /\ attribData = 0
    /\ layerData = 0
    /\ loadIsDone = FALSE
    /\ formattedAttributes = 0
    /\ requests = <<>>
    /\ formatted = <<>>
    /\ fcCalls = <<>>

\* loadSymbology was not called
SymbologyIdle ==
    /\ fcUrl = Undefined
    /\ fcIdx = Undefined
    /\ mergeAllLayers = FALSE
    /\ loadPhase = "idle"
    /\ fcSymbology = <<>>
    /\ symbologyLoad = NoPromise

FcIdle == AttribIdle /\ SymbologyIdle

OthersIdle == ZoomIdle /\ LegendIdle /\ WmsIdle /\ MapIdle /\ FcIdle

\* enhanceRenderer was not called
EnhanceIdle ==
    /\ legend = <<>>
    /\ legItem = <<>>
    /\ thenOrder = <<>>
    /\ legendLookup = EmptyLookup
    /\ enhancing = "none"

\* neither getGraphicIcon nor getGraphicSymbol was called
SearchIdle ==
    /\ attributes = NoAttributes
    /\ pc = "idle"
    /\ renderInfo = Thrown
    /\ ret = Undefined

InitSearch ==
    /\ renderer \in SearchRenderers
    /\ SearchIdle
    /\ EnhanceIdle
    /\ OthersIdle

CallGetGraphicIcon == \E attrs \in SearchAttributes(renderer) : getGraphicIcon(attrs)
CallGetGraphicSymbol == \E attrs \in SearchAttributes(renderer) : getGraphicSymbol(attrs)

NextSearch ==
    \/ CallGetGraphicIcon
    \/ CallGetGraphicSymbol

SpecSearch == InitSearch /\ [][NextSearch]_vars

----------------------------------------------------------------------------
(* enhanceRenderer *)

\* legendLookup[label]
lookup(ll, label) == ll[StringOf(label)]

\* storeLegendItem that keeps the first svg code stored for a label
storeLegendItemOnce(ll, data) ==
    IF lookup(ll, data.label) = Undefined
    THEN [ll EXCEPT ![StringOf(data.label)] = data.svgcode]
    ELSE ll

\* legendLookup[data.label] = data.svgcode
storeLegendItem(ll, data) ==
    [ll EXCEPT ![StringOf(data.label)] = data.svgcode]

\* promiseAll that ignores the promises that were rejected
promiseAllSettled(items) ==
    IF \A i \in DOMAIN items : items[i] # "pending" THEN "fulfilled" ELSE "pending"

\* promiseAll that is fulfilled by the first promise fulfilled
promiseAny(items) ==
    IF \E i \in DOMAIN items : items[i] = "fulfilled" THEN "fulfilled"
    ELSE IF items # <<>> /\ \A i \in DOMAIN items : items[i] # "pending" THEN "rejected"
    ELSE "pending"

\* Promise.all(legendItemPromises): rejected once a promise is rejected,
\* fulfilled once all are fulfilled
promiseAll(items) ==
    IF \E i \in DOMAIN items : items[i] \in {"rejected", "TypeError"} THEN "rejected"
    ELSE IF \A i \in DOMAIN items : items[i] = "fulfilled" THEN "fulfilled"
    ELSE "pending"

\* enhanceDefault without the test of the default label
enhanceDefaultAlways(r, ll) ==
    [r EXCEPT !.defaultsvgcode = lookup(ll, r.defaultLabel)]

\* if (renderer.defaultLabel) { renderer.defaultsvgcode = legendLookup[renderer.defaultLabel]; }
enhanceDefault(r, ll) ==
    IF Truthy(r.defaultLabel)
    THEN [r EXCEPT !.defaultsvgcode = lookup(ll, r.defaultLabel)]
    ELSE r

\* infos.forEach(info => { info.svgcode = legendLookup[info.label]; })
enhanceInfos(infos, ll) ==
    [i \in 1..Len(infos) |-> [infos[i] EXCEPT !.svgcode = lookup(ll, infos[i].label)]]

\* the switch on renderer.type that runs once every legend item is resolved
enhanced(r, ll) ==
    CASE r.type = SIMPLE -> [r EXCEPT !.svgcode = lookup(ll, r.label)]
      [] r.type = UNIQUE_VALUE ->
           [enhanceDefault(r, ll) EXCEPT
               !.uniqueValueInfos = enhanceInfos(r.uniqueValueInfos, ll)]
      [] r.type = CLASS_BREAKS ->
           [enhanceDefault(r, ll) EXCEPT
               !.classBreakInfos = enhanceInfos(r.classBreakInfos, ll)]
      [] OTHER -> r

\* the call enhanceRenderer(renderer, legend): the lookup object is made and a
\* callback is put on every legend item promise
enhanceRenderer ==
    /\ enhancing = "none"
    /\ enhancing' = "pending"
    /\ legendLookup' = EmptyLookup
    /\ legItem' = [i \in 1..Len(legend) |-> "pending"]
    /\ thenOrder' = <<>>
    /\ UNCHANGED <<renderer, legend, searchVars, otherVars>>

\* legend item i resolves with its data and its callback stores the svg code
legItemResolved(i) ==
    /\ enhancing # "none"
    /\ legItem[i] = "pending"
    /\ legendLookup' = storeLegendItem(legendLookup, legend[i])
    /\ legItem' = [legItem EXCEPT ![i] = "fulfilled"]
    /\ thenOrder' = Append(thenOrder, i)
    /\ UNCHANGED <<renderer, legend, enhancing, searchVars, otherVars>>

\* legend item i resolves with undefined (symbolToLegend caught an error and
\* logged it): reading data.label in the callback raises a TypeError
legItemResolvedUndefined(i) ==
    /\ enhancing # "none"
    /\ legItem[i] = "pending"
    /\ legItem' = [legItem EXCEPT ![i] = "TypeError"]
    /\ UNCHANGED <<renderer, legend, legendLookup, thenOrder, enhancing, searchVars, otherVars>>

\* legend item i is rejected: its callback does not run
legItemRejected(i) ==
    /\ enhancing # "none"
    /\ legItem[i] = "pending"
    /\ legItem' = [legItem EXCEPT ![i] = "rejected"]
    /\ UNCHANGED <<renderer, legend, legendLookup, thenOrder, enhancing, searchVars, otherVars>>

\* the callback enhanceRenderer put on legend item i runs with what the
\* promise of symbolToLegend resolved with (nothing runs when enhanceRenderer
\* was not called): the callbacks of a promise run in the order they were put on it
legendItemThen(i, data) ==
    /\ IF enhancing = "none"
       THEN UNCHANGED <<legItem, legendLookup, thenOrder>>
       ELSE IF data = Undefined
       THEN /\ legItem' = [legItem EXCEPT ![i] = "TypeError"]
            /\ UNCHANGED <<legendLookup, thenOrder>>
       ELSE /\ legendLookup' = storeLegendItem(legendLookup, data)
            /\ legItem' = [legItem EXCEPT ![i] = "fulfilled"]
            /\ thenOrder' = Append(thenOrder, i)
    /\ UNCHANGED <<legend, enhancing>>

\* the lookup object once the callbacks of the items from i on that are
\* resolved already have run, in the order of the list
RECURSIVE lookupOfResolved(_, _, _)
lookupOfResolved(ll, items, i) ==
    IF i > Len(items) THEN ll
    ELSE lookupOfResolved(IF items[i].state = "fulfilled" /\ items[i].value # Undefined
                          THEN storeLegendItem(ll, items[i].value)
                          ELSE ll,
                          items, i + 1)

\* Promise.all is fulfilled: the renderer gets its icons and the returned promise resolves
allResolved ==
    /\ enhancing = "pending"
    /\ promiseAll(legItem) = "fulfilled"
    /\ renderer' = enhanced(renderer, legendLookup)
    /\ enhancing' = "resolved"
    /\ UNCHANGED <<legend, legItem, legendLookup, thenOrder, searchVars, otherVars>>

\* Promise.all is rejected: the returned promise rejects
allRejected ==
    /\ enhancing = "pending"
    /\ promiseAll(legItem) = "rejected"
    /\ enhancing' = "rejected"
    /\ UNCHANGED <<renderer, legend, legItem, legendLookup, thenOrder, searchVars, otherVars>>

----------------------------------------------------------------------------
(* The renderers and the legends of the enhancement specification *)

\* a renderer as the server gives it: no svg code yet
BranchLabels == {Str("A"), Str("B")}
DefaultLabels == {Undefined, Str(""), Str("A")}

PlainSimpleRenderers ==
    {[BlankRenderer EXCEPT !.type = SIMPLE, !.symbol = Obj("symbol"), !.label = l]
     : l \in BranchLabels \cup {Undefined}}

PlainUniqueValueRenderers ==
    {[BlankRenderer EXCEPT
        !.type = UNIQUE_VALUE, !.field1 = Str("f1"),
        !.uniqueValueInfos =
            [i \in 1..Len(labels) |->
                [value |-> Str(IntToString(i)), label |-> labels[i],
                 symbol |-> BranchSymbol(i), svgcode |-> Undefined]],
        !.defaultSymbol = Obj("defaultSymbol"), !.defaultLabel = dl]
     : labels \in SeqsUpTo(BranchLabels, MaxBranches), dl \in DefaultLabels}

PlainClassBreaksRenderers ==
    {[BlankRenderer EXCEPT
        !.type = CLASS_BREAKS, !.field = Str("f"), !.minValue = Num(0),
        !.classBreakInfos =
            [i \in 1..Len(labels) |->
                [classMaxValue |-> Num(i * One), label |-> labels[i],
                 symbol |-> BranchSymbol(i), svgcode |-> Undefined]],
        !.defaultSymbol = Obj("defaultSymbol"), !.defaultLabel = dl]
     : labels \in SeqsUpTo(BranchLabels, MaxBranches), dl \in DefaultLabels}

PlainRenderers ==
    PlainSimpleRenderers \cup PlainUniqueValueRenderers
        \cup PlainClassBreaksRenderers \cup OtherRenderers

\* the svg code of the legend item at position i
LegendIcon(i) == Svg(CONTAINER_SIZE, "legend" \o IntToString(i))

\* the legends: item i resolves with {label, svgcode}, each svg code its own
LegendLabels == BranchLabels \cup {Str("")}
Legends ==
    {[i \in 1..Len(labels) |-> [label |-> labels[i], svgcode |-> LegendIcon(i)]]
     : labels \in SeqsUpTo(LegendLabels, MaxLegend)}

InitEnhance ==
    /\ renderer \in PlainRenderers
    /\ legend \in Legends
    /\ legItem = <<>>
    /\ thenOrder = <<>>
    /\ legendLookup = EmptyLookup
    /\ enhancing = "none"
    /\ SearchIdle
    /\ OthersIdle

LegItemResolved == \E i \in DOMAIN legItem : legItemResolved(i)
LegItemResolvedUndefined == \E i \in DOMAIN legItem : legItemResolvedUndefined(i)
LegItemRejected == \E i \in DOMAIN legItem : legItemRejected(i)

NextEnhance ==
    \/ enhanceRenderer
    \/ LegItemResolved
    \/ LegItemResolvedUndefined
    \/ LegItemRejected
    \/ allResolved
    \/ allRejected

SpecEnhance == InitEnhance /\ [][NextEnhance]_vars

----------------------------------------------------------------------------
(* getZoomLevel *)

\* the most levels of detail of a list
MaxLods == 4
\* the greatest scale of a level of detail and of a scale limit
MaxScale == 4

\* Math.ceil(lods.length / 2)
middleLod(n) == (n + 1) \div 2

\* lods[i].scale, i counted from 0 as the code does
scaleOf(i) == lods[i + 1]

\* the test of the scale limit that never holds
noLimitNever(limit) == FALSE

\* maxScale === 0
noLimit(limit) == limit = 0

\* the call getZoomLevel(lods, maxScale) up to the while loop
getZoomLevel ==
    /\ zpc = "idle"
    /\ found' = FALSE
    /\ currentLod' = middleLod(Len(lods))
    /\ lowLod' = 0
    /\ highLod' = Len(lods) - 1
    /\ IF noLimit(maxScale)
       THEN zpc' = "returned" /\ zret' = Len(lods) - 1
       ELSE zpc' = "while" /\ zret' = zret
    /\ UNCHANGED <<lods, maxScale, iter>>
    /\ UNCHANGED <<renderer, searchVars, enhanceVars, legendVars, wmsVars, mapVars, fcVars>>

\* one run of the body of while (!found); lods[currentLod] is undefined beyond
\* the list, and reading its scale raises a TypeError. The model follows the
\* loop for one run more than the list has levels.
whileNotFound ==
    /\ zpc = "while"
    /\ ~found
    /\ iter <= Len(lods)
    /\ iter' = iter + 1
    /\ IF currentLod >= Len(lods)
       THEN /\ zpc' = "threw"
            /\ UNCHANGED <<found, currentLod, lowLod, highLod>>
       ELSE /\ lowLod' = IF scaleOf(currentLod) >= maxScale THEN currentLod ELSE lowLod
            /\ highLod' = IF scaleOf(currentLod) >= maxScale THEN highLod ELSE currentLod
            /\ currentLod' = (highLod' + lowLod') \div 2
            /\ found' = (highLod' = lowLod' + 1)
            /\ zpc' = zpc
    /\ UNCHANGED <<lods, maxScale, zret>>
    /\ UNCHANGED <<renderer, searchVars, enhanceVars, legendVars, wmsVars, mapVars, fcVars>>

\* return currentLod
returnCurrentLod ==
    /\ zpc = "while"
    /\ found
    /\ zpc' = "returned"
    /\ zret' = currentLod
    /\ UNCHANGED <<lods, maxScale, found, currentLod, lowLod, highLod, iter>>
    /\ UNCHANGED <<renderer, searchVars, enhanceVars, legendVars, wmsVars, mapVars, fcVars>>

\* the lists of levels of detail: every list of 1 to MaxLods scales
LodLists == SeqsUpTo(1..MaxScale, MaxLods) \ {<<>>}

InitZoom ==
    /\ lods \in LodLists
    /\ maxScale \in 0..MaxScale
    /\ found = FALSE
    /\ currentLod = 0
    /\ lowLod = 0
    /\ highLod = 0
    /\ iter = 0
    /\ zpc = "idle"
    /\ zret = 0
    /\ renderer = BlankRenderer
    /\ SearchIdle
    /\ EnhanceIdle
    /\ LegendIdle
    /\ WmsIdle
    /\ MapIdle
    /\ FcIdle

NextZoom ==
    \/ getZoomLevel
    \/ whileNotFound
    \/ returnCurrentLod

SpecZoom == InitZoom /\ [][NextZoom]_vars

----------------------------------------------------------------------------
(* symbolToLegend and rendererToLegend *)

\* the keys of the table symbolTypes
SymbolTypes == {"esriSMS", "esriSLS", "esriCLS", "esriSFS", "esriTS", "esriPFS", "esriPMS"}
\* the keys of the table esriSimpleMarkerSimbol
MarkerStyles ==
    {"esriSMSPath", "esriSMSCircle", "esriSMSCross", "esriSMSX", "esriSMSTriangle",
     "esriSMSDiamond", "esriSMSSquare"}
\* the keys of the table esriSFSFills
FillStyles ==
    {"esriSFSSolid", "esriSFSNull", "esriSFSHorizontal", "esriSFSVertical",
     "esriSFSForwardDiagonal", "esriSFSBackwardDiagonal", "esriSFSCross",
     "esriSFSDiagonalCross"}

\* a symbol in server format
Symbol(type, style) ==
    [type |-> type, style |-> style, imageData |-> Undefined, contentType |-> Undefined]
\* { type: 'esriPMS', imageData, contentType }
PictureMarker(imageData, contentType) ==
    [type |-> "esriPMS", style |-> "", imageData |-> imageData, contentType |-> contentType]

\* the state of a drawing ("threw", "drawn", "fetching", "loading", "fetchFailed",
\* "loadFailed") and what the svg document holds
Draw(state, content) == [state |-> state, content |-> content]

\* draw.svg() of a document of the container size
drawSvg(content) == Svg(CONTAINER_SIZE, content)

\* symbolTypes[symbol.type](): a type that is no key of the table, a marker or
\* fill style that is no key of its table, raises a TypeError (undefined is not
\* a function); the text symbol draws nothing; the picture symbols return the
\* promise of convertImagetoDataURL
drawSymbol(symbol) ==
    CASE symbol.type \notin SymbolTypes -> Draw("threw", "")
      [] symbol.type = "esriSMS" ->
           IF symbol.style \in MarkerStyles THEN Draw("drawn", "marker") ELSE Draw("threw", "")
      [] symbol.type \in {"esriSLS", "esriCLS"} -> Draw("drawn", "line")
      [] symbol.type = "esriSFS" ->
           IF symbol.style \in FillStyles THEN Draw("drawn", "rect") ELSE Draw("threw", "")
      [] symbol.type = "esriTS" -> Draw("drawn", "")
      [] symbol.type \in {"esriPFS", "esriPMS"} -> Draw("fetching", "")

\* the arguments symbol and label of a call of symbolToLegend
child(symbol, label) == [symbol |-> symbol, label |-> label]

\* if (renderer.defaultSymbol) { legend.push(symbolToLegend(renderer.defaultSymbol, renderer.defaultLabel || '', window)); }
defaultChild(r) ==
    IF r.defaultSymbol \notin {Undefined, Null}
    THEN <<child(r.defaultSymbol, IF Truthy(r.defaultLabel) THEN r.defaultLabel ELSE Str(""))>>
    ELSE <<>>

\* the calls of symbolToLegend that scrapeListRenderer makes, in order
scrapeListRenderer(r, childList) ==
    [i \in 1..Len(childList) |-> child(childList[i].symbol, childList[i].label)]
        \o defaultChild(r)

\* the calls of symbolToLegend that the switch on renderer.type makes, in order
childrenOf(r) ==
    CASE r.type = SIMPLE -> <<child(r.symbol, r.label)>>
      [] r.type = UNIQUE_VALUE -> scrapeListRenderer(r, r.uniqueValueInfos)
      [] r.type = CLASS_BREAKS -> scrapeListRenderer(r, r.classBreakInfos)
      [] OTHER -> <<>>

\* the calls whose drawing routine throws
throwing(children) ==
    {i \in DOMAIN children : drawSymbol(children[i].symbol).state = "threw"}

\* the last call made: the first that throws, else the last of the list
lastCall(children) ==
    IF throwing(children) = {} THEN Len(children) ELSE FirstIndex(throwing(children))

\* rendererToLegend(r, index) up to its return: each call of symbolToLegend
\* appends its container to the body and draws; a drawing that throws ends
\* rendererToLegend with that exception; the callback of every other call whose
\* drawing is done is queued as a promise job
toLegendOf(r, index) ==
    LET children == childrenOf(r)
        n == lastCall(children)
        drawn == [i \in 1..n |-> drawSymbol(children[i].symbol)]
    IN  /\ layerId' = index
        /\ calls' = SubSeq(children, 1, n)
        /\ body' = body \cup (1..n)
        /\ drawing' = drawn
        /\ item' = [i \in 1..n |-> IF drawn[i].state = "threw" THEN NoPromise ELSE Pending]
        /\ jobs' = SelectSeq([i \in 1..n |-> i], LAMBDA i : drawn[i].state = "drawn")
        /\ toLegend' = IF throwing(children) = {} THEN "returned" ELSE "threw"

\* the call rendererToLegend(renderer, index)
rendererToLegend(index) ==
    /\ toLegend = "idle"
    /\ toLegendOf(renderer, index)
    /\ UNCHANGED <<renderer, searchVars, enhanceVars, zoomVars, wmsVars, mapVars, fcVars>>

\* the then callback of symbolToLegend runs for the call at the head of the
\* job queue: the container is removed and the promise resolves with
\* { label, svgcode: draw.svg() }
containerRemoved ==
    /\ jobs # <<>>
    /\ drawing[Head(jobs)].state = "drawn"
    /\ body' = body \ {Head(jobs)}
    /\ item' = [item EXCEPT ![Head(jobs)] =
                   Fulfilled([label |-> calls[Head(jobs)].label,
                              svgcode |-> drawSvg(drawing[Head(jobs)].content)])]
    /\ jobs' = Tail(jobs)
    /\ legendItemThen(Head(jobs), item'[Head(jobs)].value)
    /\ UNCHANGED <<toLegend, layerId, calls, drawing>>
    /\ UNCHANGED <<renderer, searchVars, zoomVars, wmsVars, mapVars, fcVars>>

\* the catch callback of symbolToLegend runs for the call at the head of the
\* job queue: the error is logged and the promise resolves with what
\* console.log returns, undefined
errorLogged ==
    /\ jobs # <<>>
    /\ drawing[Head(jobs)].state \in {"fetchFailed", "loadFailed"}
    /\ item' = [item EXCEPT ![Head(jobs)] = Fulfilled(Undefined)]
    /\ jobs' = Tail(jobs)
    /\ legendItemThen(Head(jobs), Undefined)
    /\ UNCHANGED <<toLegend, layerId, calls, body, drawing>>
    /\ UNCHANGED <<renderer, searchVars, zoomVars, wmsVars, mapVars, fcVars>>

\* the drawing of call i goes on to the state d; its callback is queued when it is over.
\* An event of the browser is handled only once the promise jobs have run.
drawingGoesOn(i, d) ==
    /\ jobs = <<>>
    /\ drawing' = [drawing EXCEPT ![i] = d]
    /\ jobs' = IF d.state = "loading" THEN jobs ELSE <<i>>
    /\ UNCHANGED <<toLegend, layerId, calls, body, item>>
    /\ UNCHANGED <<renderer, searchVars, enhanceVars, zoomVars, wmsVars, mapVars, fcVars>>

\* convertImagetoDataURL resolves: the picture fill is drawn with the image
\* as its pattern, the picture marker goes on to svgDrawImage
imageFetched(i) ==
    /\ drawing[i].state = "fetching"
    /\ drawingGoesOn(i, IF calls[i].symbol.type = "esriPFS"
                        THEN Draw("drawn", "rect") ELSE Draw("loading", ""))

\* convertImagetoDataURL rejects
imageFetchFailed(i) ==
    /\ drawing[i].state = "fetching"
    /\ drawingGoesOn(i, Draw("fetchFailed", ""))

\* svgDrawImage resolves: the image is centered, rotated and fitted
imageLoaded(i) ==
    /\ drawing[i].state = "loading"
    /\ drawingGoesOn(i, Draw("drawn", "image"))

\* svgDrawImage rejects
imageLoadFailed(i) ==
    /\ drawing[i].state = "loading"
    /\ drawingGoesOn(i, Draw("loadFailed", "image"))

----------------------------------------------------------------------------
(* The renderers of the legend specification *)

\* symbols: a circle marker, a marker of a style outside the table, a text
\* symbol, a picture marker, a symbol of a type outside the table
LegendSymbols ==
    {Symbol("esriSMS", "esriSMSCircle"), Symbol("esriSMS", "esriSMSStar"),
     Symbol("esriTS", ""), PictureMarker(Str("AAAA"), Str("image/png")),
     Symbol("CIMSymbolReference", "")}

\* the default symbol and the default label: none, a fill without a label, a
\* picture fill with a label
LegendDefaults ==
    {<<Undefined, Undefined>>, <<Symbol("esriSFS", "esriSFSSolid"), Undefined>>,
     <<Symbol("esriPFS", ""), Str("Other")>>}

LegendSimpleRenderers ==
    {[BlankRenderer EXCEPT !.type = SIMPLE, !.symbol = s, !.label = Str("label")]
     : s \in LegendSymbols}

LegendUniqueValueRenderers ==
    {[BlankRenderer EXCEPT
        !.type = UNIQUE_VALUE, !.field1 = Str("f1"),
        !.uniqueValueInfos =
            [i \in 1..Len(symbols) |->
                [value |-> Str(IntToString(i)), label |-> BranchLabel(i),
                 symbol |-> symbols[i], svgcode |-> Undefined]],
        !.defaultSymbol = d[1], !.defaultLabel = d[2]]
     : symbols \in SeqsUpTo(LegendSymbols, MaxBranches), d \in LegendDefaults}

LegendClassBreaksRenderers ==
    {[BlankRenderer EXCEPT
        !.type = CLASS_BREAKS, !.field = Str("f"), !.minValue = Num(0),
        !.classBreakInfos =
            [i \in 1..Len(symbols) |->
                [classMaxValue |-> Num(i * One), label |-> BranchLabel(i),
                 symbol |-> symbols[i], svgcode |-> Undefined]],
        !.defaultSymbol = d[1], !.defaultLabel = d[2]]
     : symbols \in SeqsUpTo(LegendSymbols, MaxBranches), d \in LegendDefaults}

LegendRenderers ==
    LegendSimpleRenderers \cup LegendUniqueValueRenderers
        \cup LegendClassBreaksRenderers \cup OtherRenderers

\* the layer index given to rendererToLegend: none, 0
LegendIndexes == {Undefined, Num(0)}

InitLegend ==
    /\ renderer \in LegendRenderers
    /\ LegendIdle
    /\ SearchIdle
    /\ EnhanceIdle
    /\ ZoomIdle
    /\ WmsIdle
    /\ MapIdle
    /\ FcIdle

RendererToLegend == \E index \in LegendIndexes : rendererToLegend(index)
ImageFetched == \E i \in DOMAIN drawing : imageFetched(i)
ImageFetchFailed == \E i \in DOMAIN drawing : imageFetchFailed(i)
ImageLoaded == \E i \in DOMAIN drawing : imageLoaded(i)
ImageLoadFailed == \E i \in DOMAIN drawing : imageLoadFailed(i)

NextLegend ==
    \/ RendererToLegend
    \/ containerRemoved
    \/ errorLogged
    \/ ImageFetched
    \/ ImageFetchFailed
    \/ ImageLoaded
    \/ ImageLoadFailed

SpecLegend == InitLegend /\ [][NextLegend]_vars

----------------------------------------------------------------------------
(* generateWMSSymbology *)

\* the greatest width and height of a legend image
MaxImage == 3

\* the svg document once the image is loaded: draw.viewbox(0, 0, loader.width, loader.height)
imageContent(width, height) == "image " \o IntToString(width) \o "x" \o IntToString(height)

\* symbologyItem with its svg code set to draw.svg()
withSvgcode(symbology, content) == [symbology EXCEPT !.svgcode = drawSvg(content)]

\* the call generateWMSSymbology(name, imageUri): without an image the promise
\* returned is resolved with the item and its empty svg document
generateWMSSymbology ==
    /\ wmsPhase = "idle"
    /\ IF Truthy(wmsUri)
       THEN /\ symbologyItem' = [name |-> wmsName, svgcode |-> Null]
            /\ wmsPromise' = Pending
            /\ wmsPhase' = "fetching"
       ELSE /\ symbologyItem' = withSvgcode([name |-> wmsName, svgcode |-> Null], "")
            /\ wmsPromise' = Fulfilled(symbologyItem')
            /\ wmsPhase' = "done"
    /\ UNCHANGED <<wmsName, wmsUri>>
    /\ UNCHANGED <<renderer, searchVars, enhanceVars, zoomVars, legendVars, mapVars, fcVars>>

\* convertImagetoDataURL resolves and svgDrawImage starts to load the image
wmsImageFetched ==
    /\ wmsPhase = "fetching"
    /\ wmsPhase' = "loading"
    /\ UNCHANGED <<wmsName, wmsUri, symbologyItem, wmsPromise>>
    /\ UNCHANGED <<renderer, searchVars, enhanceVars, zoomVars, legendVars, mapVars, fcVars>>

\* the catch callback: the svg code is set and nothing is returned, so the
\* promise resolves with undefined
wmsCaught(content) ==
    /\ symbologyItem' = withSvgcode(symbologyItem, content)
    /\ wmsPromise' = Fulfilled(Undefined)
    /\ wmsPhase' = "done"
    /\ UNCHANGED <<wmsName, wmsUri>>
    /\ UNCHANGED <<renderer, searchVars, enhanceVars, zoomVars, legendVars, mapVars, fcVars>>

\* convertImagetoDataURL rejects: the catch callback runs on the empty document
wmsImageFetchFailed ==
    /\ wmsPhase = "fetching"
    /\ wmsCaught("")

\* svgDrawImage resolves with the loader: the view box is set to the size of
\* the image and the promise resolves with the item
wmsImageLoaded(width, height) ==
    /\ wmsPhase = "loading"
    /\ symbologyItem' = withSvgcode(symbologyItem, imageContent(width, height))
    /\ wmsPromise' = Fulfilled(symbologyItem')
    /\ wmsPhase' = "done"
    /\ UNCHANGED <<wmsName, wmsUri>>
    /\ UNCHANGED <<renderer, searchVars, enhanceVars, zoomVars, legendVars, mapVars, fcVars>>

\* svgDrawImage rejects: the catch callback runs on the document that holds
\* the image element that did not load
wmsImageLoadFailed ==
    /\ wmsPhase = "loading"
    /\ wmsCaught("image")

\* the names and the image addresses given to generateWMSSymbology
WmsNames == {Undefined, Str(""), Str("Roads"), Str("Lakes")}
WmsUris ==
    {Undefined, Null, Str(""), Str("http://wms/legend.png"), Str("data:image/png;base64,AAAA")}

InitWMS ==
    /\ wmsName \in WmsNames
    /\ wmsUri \in WmsUris
    /\ wmsPhase = "idle"
    /\ symbologyItem = [name |-> Undefined, svgcode |-> Null]
    /\ wmsPromise = NoPromise
    /\ renderer = BlankRenderer
    /\ SearchIdle
    /\ EnhanceIdle
    /\ ZoomIdle
    /\ LegendIdle
    /\ MapIdle
    /\ FcIdle

WmsImageLoaded == \E width \in 1..MaxImage, height \in 1..MaxImage : wmsImageLoaded(width, height)

NextWMS ==
    \/ generateWMSSymbology
    \/ wmsImageFetched
    \/ wmsImageFetchFailed
    \/ WmsImageLoaded
    \/ wmsImageLoadFailed

SpecWMS == InitWMS /\ [][NextWMS]_vars

----------------------------------------------------------------------------
(* mapServerToLocalLegend *)

\* the most sub-layers of a server legend
MaxLayers == 2

\* ll => ({ label: ll.label, symbol: { type: 'esriPMS', imageData: ll.imageData, contentType: ll.contentType } })
branchOf(ll) ==
    [value |-> Undefined, label |-> ll.label,
     symbol |-> PictureMarker(ll.imageData, ll.contentType), svgcode |-> Undefined]

\* layer.legend.map(...)
layerBranches(layer) == [e \in 1..Len(layer.legend) |-> branchOf(layer.legend[e])]

\* { type: 'uniqueValue', uniqueValueInfos }
fakeRendererOf(infos) ==
    [BlankRenderer EXCEPT !.type = UNIQUE_VALUE, !.uniqueValueInfos = infos]

\* mapServerLegendToRenderer: serverLegend.layers.find(l => l.layerId === layerIndex);
\* with no such layer, reading layerLegend.legend raises a TypeError
mapServerLegendToRenderer(layers, index) ==
    LET p == FirstIndex({q \in DOMAIN layers : layers[q].layerId = index})
    IN  IF p = 0 THEN TypeError ELSE fakeRendererOf(layerBranches(layers[p]))

\* [].concat(...layerRenders)
RECURSIVE concatAll(_)
concatAll(seqs) ==
    IF seqs = <<>> THEN <<>> ELSE Head(seqs) \o concatAll(Tail(seqs))

\* mapServerLegendToRendererAll
mapServerLegendToRendererAll(layers) ==
    fakeRendererOf(concatAll([p \in DOMAIN layers |-> layerBranches(layers[p])]))

\* the test of the layer index that always holds
indexOmittedAlways(index) == TRUE

\* typeof layerIndex === 'undefined'
indexOmitted(index) == index = Undefined

\* the fake renderer of the then callback of mapServerToLocalLegend
fakeRenderer(layers, index) ==
    IF indexOmitted(index)
    THEN mapServerLegendToRendererAll(layers)
    ELSE mapServerLegendToRenderer(layers, index)

\* the call mapServerToLocalLegend(mapServerUrl, layerIndex): the legend is requested
mapServerToLocalLegend ==
    /\ request = "idle"
    /\ request' = "pending"
    /\ localLegend' = Pending
    /\ UNCHANGED <<serverLegend, layerIndex>>
    /\ UNCHANGED <<renderer, searchVars, enhanceVars, zoomVars, legendVars, wmsVars, fcVars>>

\* the request resolves with the legend of the server: the then callback makes
\* the fake renderer and calls rendererToLegend(fakeRenderer); what it throws
\* rejects the promise returned
legendReceived ==
    /\ request = "pending"
    /\ request' = "resolved"
    /\ IF fakeRenderer(serverLegend, layerIndex) = TypeError
       THEN /\ localLegend' = Rejected(TypeError)
            /\ UNCHANGED <<renderer, legendVars>>
       ELSE /\ renderer' = fakeRenderer(serverLegend, layerIndex)
            /\ toLegendOf(renderer', Undefined)
            /\ localLegend' = IF toLegend' = "threw" THEN Rejected(TypeError)
                              ELSE Fulfilled(Obj("legend"))
    /\ UNCHANGED <<serverLegend, layerIndex>>
    /\ UNCHANGED <<searchVars, enhanceVars, zoomVars, wmsVars, fcVars>>

\* the error object of a response of the server, and the error of a request that failed
ServerError == Obj("srvResult.error")
RequestError == Obj("error")

\* what is seen when the error field is not tested: the then callback reads
\* the layers of a response that has none
rejectUnchecked(error) == Rejected(TypeError)

\* reject(srvResult.error), reject(error): the promise of getMapServerLegend
\* rejects, and with it the promise that its then returned
rejectWith(error) == Rejected(error)

\* the request resolves with a result that has an error field: reject(srvResult.error)
legendErrorReceived ==
    /\ request = "pending"
    /\ request' = "resolved with error"
    /\ localLegend' = rejectWith(ServerError)
    /\ UNCHANGED <<serverLegend, layerIndex>>
    /\ UNCHANGED <<renderer, searchVars, enhanceVars, zoomVars, legendVars, wmsVars, fcVars>>

\* the request fails: reject(error)
requestFailed ==
    /\ request = "pending"
    /\ request' = "failed"
    /\ localLegend' = rejectWith(RequestError)
    /\ UNCHANGED <<serverLegend, layerIndex>>
    /\ UNCHANGED <<renderer, searchVars, enhanceVars, zoomVars, legendVars, wmsVars, fcVars>>

\* the layer ids of a server legend
LayerIds == {Num(k * One) : k \in 0..MaxLayers}

\* how many legend entries the layers hold
RECURSIVE totalOf(_)
totalOf(sizes) ==
    IF sizes = <<>> THEN 0 ELSE Head(sizes) + totalOf(Tail(sizes))

\* entry e of the layer at place p: { label, imageData, contentType }
serverEntry(p, e) ==
    [label |-> Str("layer " \o IntToString(p) \o " entry " \o IntToString(e)),
     imageData |-> Str("AAA" \o IntToString(p) \o IntToString(e)),
     contentType |-> Str("image/png")]

\* the legends of a server: up to MaxLayers layers of distinct ids that hold
\* up to MaxLegend entries between them
ServerLegends ==
    {[p \in 1..Len(ids) |->
         [layerId |-> ids[p], legend |-> [e \in 1..sizes[p] |-> serverEntry(p, e)]]]
     : <<ids, sizes>> \in
         {pair \in SeqsUpTo(LayerIds, MaxLayers) \X SeqsUpTo(0..MaxLegend, MaxLayers) :
             /\ Len(pair[1]) = Len(pair[2])
             /\ \A p, q \in DOMAIN pair[1] : p # q => pair[1][p] # pair[1][q]
             /\ totalOf(pair[2]) <= MaxLegend}}

\* the layer index given: none, an index, the index 0 as a string
LayerIndexes == {Undefined, Num(0), Num(One), Str("0")}

InitMapServer ==
    /\ serverLegend \in ServerLegends
    /\ layerIndex \in LayerIndexes
    /\ request = "idle"
    /\ localLegend = NoPromise
    /\ renderer = BlankRenderer
    /\ SearchIdle
    /\ EnhanceIdle
    /\ ZoomIdle
    /\ LegendIdle
    /\ WmsIdle
    /\ FcIdle

NextMapServer ==
    \/ mapServerToLocalLegend
    \/ legendReceived
    \/ legendErrorReceived
    \/ requestFailed
    \/ containerRemoved
    \/ errorLogged
    \/ ImageFetched
    \/ ImageFetchFailed
    \/ ImageLoaded
    \/ ImageLoadFailed

SpecMapServer == InitMapServer /\ [][NextMapServer]_vars

----------------------------------------------------------------------------
(* BasicFC.getAttribs, getLayerData and getFormattedAttributes              *)
(* (src/src/layer/layerRec/basicFC.js): the promises cached on the layer    *)
(* package and on the feature class                                         *)
(*                                                                          *)
(* A web request is settled by the browser in a task of its own; the        *)
(* callbacks of the promises that wait for it run as promise jobs before    *)
(* any other task, so one action holds the settling of a request and all    *)
(* that follows from it.                                                    *)

\* the calls made from outside the class in one behaviour, at most
MaxCalls == 3

\* shared.clientLayerType: the names of two of its members
ESRI_RASTER == Str("ESRI_RASTER")
ESRI_IMAGE == Str("ESRI_IMAGE")

\* a web request just issued by a function, and the new promise that waits for it
webRequest(by) == [by |-> by, state |-> "pending", promise |-> Pending]

\* a cache test that never finds a promise
cachedNever(cache) == FALSE

\* if (this._layerPackage._attribData), if (this._layerPackage.layerData),
\* if (this._formattedAttributes): a promise is cached
cached(cache) == cache # 0

\* an error callback that leaves the property as it is
attribDataKept(cache) == cache

\* the error callback of getAttribs: delete this._layerPackage._attribData
attribDataAfterError(cache) == 0

\* the error callback of getLayerData deletes nothing
layerDataAfterError(cache) == cache

\* createAttribSet: the attribute set of a response with that many features
createAttribSet(features) == [t |-> "object", n |-> features, s |-> "attribSet"]

\* the requests after a call of a function that caches under cache
requestsAfter(by, cache) ==
    IF cached(cache) THEN requests ELSE Append(requests, webRequest(by))

\* the promise that call returns, which is the one cached after it
returnedBy(cache) == IF cached(cache) THEN cache ELSE Len(requests) + 1

call(op, promise, inner) == [op |-> op, promise |-> promise, inner |-> inner]

\* the calls made from outside the class
outerCalls == {c \in DOMAIN fcCalls : ~fcCalls[c].inner}

\* the catch callback of getFormattedAttributes: the error it throws
caught(e) ==
    IF e = Str("ABORTED") THEN Obj("Error: ABORTED") ELSE Obj("Error: Attrib loading failed")

\* the then callback of getFormattedAttributes: aData.features[0].attributes
\* throws a TypeError when there is no feature, which the catch callback gets
formattedWith(aData) ==
    IF aData.n = 0 THEN Rejected(caught(TypeError)) ELSE Fulfilled(Obj("formatted"))

\* Promise.all([...]).then(...).catch(...): the state of a promise of
\* getFormattedAttributes, given the requests
settled(f, reqs) ==
    LET a == reqs[f.aData].promise
        l == reqs[f.lData].promise
    IN  IF f.promise # Pending THEN f
        ELSE IF a.state = "rejected" THEN [f EXCEPT !.promise = Rejected(caught(a.value))]
        ELSE IF l.state = "rejected" THEN [f EXCEPT !.promise = Rejected(caught(l.value))]
        ELSE IF a.state = "fulfilled" /\ l.state = "fulfilled"
             THEN [f EXCEPT !.promise = formattedWith(a.value)]
        ELSE f

\* the promises of getFormattedAttributes once the requests are as given; the
\* catch callback of one that rejects deletes this._formattedAttributes
formattedSettles(reqs) ==
    /\ formatted' = [k \in DOMAIN formatted |-> settled(formatted[k], reqs)]
    /\ formattedAttributes' =
           IF \E k \in DOMAIN formatted :
                  formatted[k].promise = Pending /\ formatted'[k].promise.state = "rejected"
           THEN 0
           ELSE formattedAttributes

attribFrame ==
    UNCHANGED <<renderer, searchVars, enhanceVars, zoomVars, legendVars, wmsVars, mapVars,
                symbologyVars>>

getAttribs ==
    /\ Cardinality(outerCalls) < MaxCalls
    /\ requests' = requestsAfter("getAttribs", attribData)
    /\ attribData' = returnedBy(attribData)
    /\ fcCalls' = Append(fcCalls, call("getAttribs", attribData', FALSE))
    /\ UNCHANGED <<layerType, layerData, loadIsDone, formattedAttributes, formatted>>
    /\ attribFrame

getLayerData ==
    /\ Cardinality(outerCalls) < MaxCalls
    /\ requests' = requestsAfter("getLayerData", layerData)
    /\ layerData' = returnedBy(layerData)
    /\ fcCalls' = Append(fcCalls, call("getLayerData", layerData', FALSE))
    /\ UNCHANGED <<layerType, attribData, loadIsDone, formattedAttributes, formatted>>
    /\ attribFrame

getFormattedAttributes ==
    /\ Cardinality(outerCalls) < MaxCalls
    /\ IF cached(formattedAttributes)
       THEN /\ fcCalls' = Append(fcCalls,
                                 call("getFormattedAttributes", formattedAttributes, FALSE))
            /\ UNCHANGED <<attribData, layerData, formattedAttributes, requests, formatted>>
       ELSE IF layerType = ESRI_RASTER
       THEN \* throw new Error('Attempting to get attributes on a raster layer.')
            /\ fcCalls' = Append(fcCalls, call("getFormattedAttributes", 0, FALSE))
            /\ UNCHANGED <<attribData, layerData, formattedAttributes, requests, formatted>>
       ELSE LET afterAttribs == requestsAfter("getAttribs", attribData)
                aData == returnedBy(attribData)
                lData == IF cached(layerData) THEN layerData ELSE Len(afterAttribs) + 1
                f == settled([aData |-> aData, lData |-> lData, promise |-> Pending],
                             requests')
            IN  /\ requests' = IF cached(layerData) THEN afterAttribs
                               ELSE Append(afterAttribs, webRequest("getLayerData"))
                /\ attribData' = aData
                /\ layerData' = lData
                /\ formatted' = Append(formatted, f)
                /\ formattedAttributes' =
                       IF f.promise.state = "rejected" THEN 0 ELSE Len(formatted')
                /\ fcCalls' = fcCalls \o <<call("getAttribs", aData, TRUE),
                                           call("getLayerData", lData, TRUE),
                                           call("getFormattedAttributes", Len(formatted'), FALSE)>>
    /\ UNCHANGED <<layerType, loadIsDone>>
    /\ attribFrame

\* the request of getAttribs resolves with that many features
attribsReceived(k, features) ==
    /\ requests[k].by = "getAttribs"
    /\ requests[k].state = "pending"
    /\ loadIsDone' = TRUE
    /\ requests' = [requests EXCEPT ![k] = [by |-> "getAttribs", state |-> "resolved",
                                            promise |-> Fulfilled(createAttribSet(features))]]
    /\ formattedSettles(requests')
    /\ UNCHANGED <<layerType, attribData, layerData, fcCalls>>
    /\ attribFrame

\* the request of getAttribs fails
attribsFailed(k, error) ==
    /\ requests[k].by = "getAttribs"
    /\ requests[k].state = "pending"
    /\ attribData' = attribDataAfterError(attribData)
    /\ requests' = [requests EXCEPT ![k] = [by |-> "getAttribs", state |-> "failed",
                                            promise |-> Rejected(error)]]
    /\ formattedSettles(requests')
    /\ UNCHANGED <<layerType, layerData, loadIsDone, fcCalls>>
    /\ attribFrame

\* the request of getLayerData resolves
layerDataReceived(k) ==
    /\ requests[k].by = "getLayerData"
    /\ requests[k].state = "pending"
    /\ requests' = [requests EXCEPT ![k] = [by |-> "getLayerData", state |-> "resolved",
                                            promise |-> Fulfilled(Obj("layerData"))]]
    /\ formattedSettles(requests')
    /\ UNCHANGED <<layerType, attribData, layerData, loadIsDone, fcCalls>>
    /\ attribFrame

\* the request of getLayerData fails
layerDataFailed(k, error) ==
    /\ requests[k].by = "getLayerData"
    /\ requests[k].state = "pending"
    /\ layerData' = layerDataAfterError(layerData)
    /\ requests' = [requests EXCEPT ![k] = [by |-> "getLayerData", state |-> "failed",
                                            promise |-> Rejected(error)]]
    /\ formattedSettles(requests')
    /\ UNCHANGED <<layerType, attribData, loadIsDone, fcCalls>>
    /\ attribFrame

\* the errors a web request fails with
RequestErrors == {Str("ABORTED"), RequestError}
\* the number of features of a response
FeatureCounts == 0..1

InitAttribs ==
    /\ layerType \in {ESRI_RASTER, ESRI_IMAGE}
    /\ attribData = 0
    /\ layerData = 0
    /\ loadIsDone = FALSE
    /\ formattedAttributes = 0
    /\ requests = <<>>
    /\ formatted = <<>>
    /\ fcCalls = <<>>
    /\ SymbologyIdle
    /\ renderer = BlankRenderer
    /\ SearchIdle
    /\ EnhanceIdle
    /\ ZoomIdle
    /\ LegendIdle
    /\ WmsIdle
    /\ MapIdle

AttribsReceived == \E k \in DOMAIN requests, features \in FeatureCounts : attribsReceived(k, features)
AttribsFailed == \E k \in DOMAIN requests, error \in RequestErrors : attribsFailed(k, error)
LayerDataReceived == \E k \in DOMAIN requests : layerDataReceived(k)
LayerDataFailed == \E k \in DOMAIN requests, error \in RequestErrors : layerDataFailed(k, error)

NextAttribs ==
    \/ getAttribs
    \/ getLayerData
    \/ getFormattedAttributes
    \/ AttribsReceived
    \/ AttribsFailed
    \/ LayerDataReceived
    \/ LayerDataFailed

SpecAttribs == InitAttribs /\ [][NextAttribs]_vars

----------------------------------------------------------------------------
(* The legend of a renderer given to enhanceRenderer, and the icons looked  *)
(* up in the enhanced renderer: rendererToLegend, enhanceRenderer and       *)
(* getGraphicIcon on one renderer                                           *)

\* the call enhanceRenderer(renderer, legend) with the legend that
\* rendererToLegend returned for the renderer: the callbacks put on the
\* promises that are resolved already run right after the call, in the order of the list
enhanceLegend ==
    /\ toLegend = "returned"
    /\ enhancing = "none"
    /\ enhancing' = "pending"
    /\ legendLookup' = lookupOfResolved(EmptyLookup, item, 1)
    /\ legItem' = [i \in DOMAIN item |->
                       IF item[i].state = "pending" THEN "pending"
                       ELSE IF item[i].value = Undefined THEN "TypeError"
                       ELSE "fulfilled"]
    /\ thenOrder' = SelectSeq([i \in DOMAIN item |-> i], LAMBDA i : legItem'[i] = "fulfilled")
    /\ UNCHANGED <<renderer, legend, searchVars, otherVars>>

\* the symbols of the first branch: a marker, a picture marker
IconSymbols == {Symbol("esriSMS", "esriSMSCircle"), PictureMarker(Str("AAAA"), Str("image/png"))}
\* the default label: none, the empty string, a label of its own or that of a branch
IconDefaultLabels == {Undefined, Str(""), Str("B")}

\* the branches of a renderer: the first has one of the symbols, the others a marker
IconBranches(first, labels) ==
    [i \in 1..Len(labels) |->
        [label |-> labels[i],
         symbol |-> IF i = 1 THEN first ELSE Symbol("esriSMS", "esriSMSCircle"),
         svgcode |-> Undefined]]

\* the renderers with a default symbol (a fill) as the server gives them
IconRenderers ==
    {[BlankRenderer EXCEPT
        !.type = UNIQUE_VALUE, !.field1 = Str("f1"),
        !.uniqueValueInfos =
            [i \in 1..Len(labels) |->
                [value |-> Str(IntToString(i)), label |-> labels[i],
                 symbol |-> IconBranches(first, labels)[i].symbol, svgcode |-> Undefined]],
        !.defaultSymbol = Symbol("esriSFS", "esriSFSSolid"), !.defaultLabel = dl]
     : first \in IconSymbols, labels \in SeqsUpTo(BranchLabels, MaxBranches),
       dl \in IconDefaultLabels}
    \cup
    {[BlankRenderer EXCEPT
        !.type = CLASS_BREAKS, !.field = Str("f"), !.minValue = Num(0),
        !.classBreakInfos =
            [i \in 1..Len(labels) |->
                [classMaxValue |-> Num(i * One), label |-> labels[i],
                 symbol |-> IconBranches(first, labels)[i].symbol, svgcode |-> Undefined]],
        !.defaultSymbol = Symbol("esriSFS", "esriSFSSolid"), !.defaultLabel = dl]
     : first \in IconSymbols, labels \in SeqsUpTo(BranchLabels, MaxBranches),
       dl \in IconDefaultLabels}

\* the attributes of a feature: of the first branch, of no branch
IconAttributes(r) ==
    IF r.type = CLASS_BREAKS
    THEN {[NoAttributes EXCEPT !.f = v] : v \in {Num(One), Num((MaxBranches + 1) * One)}}
    ELSE {[NoAttributes EXCEPT !.f1 = v] : v \in {Str("1"), Str("none")}}

InitIcons ==
    /\ renderer \in IconRenderers
    /\ SearchIdle
    /\ EnhanceIdle
    /\ OthersIdle

\* getGraphicIcon is called on the renderer that enhanceRenderer has enhanced
GetEnhancedIcon ==
    /\ enhancing = "resolved"
    /\ \E attrs \in IconAttributes(renderer) : getGraphicIcon(attrs)

NextIcons ==
    \/ RendererToLegend
    \/ enhanceLegend
    \/ containerRemoved
    \/ errorLogged
    \/ ImageFetched
    \/ ImageFetchFailed
    \/ ImageLoaded
    \/ ImageLoadFailed
    \/ allResolved
    \/ allRejected
    \/ GetEnhancedIcon

SpecIcons == InitIcons /\ [][NextIcons]_vars

----------------------------------------------------------------------------
(* BasicFC.loadSymbology (src/src/layer/layerRec/basicFC.js): the symbology *)
(* of a feature class made of the legend of its map server                  *)

\* const legendIndex = mergeAllLayers ? undefined : this._idx
legendIndex(merge, index) == IF merge THEN Undefined ELSE index

\* shared.makeSymbologyArray(legendData.layers[0].legend): one entry for each
\* entry of the legend, named by its label
makeSymbologyArray(entries) == [i \in DOMAIN entries |-> entries[i].label]

\* the call loadSymbology(mergeAllLayers): without a url it throws, else it
\* calls mapServerToLocalLegend(url, legendIndex), which issues the request
loadSymbology(merge) ==
    /\ loadPhase = "idle"
    /\ mergeAllLayers' = merge
    /\ IF Truthy(fcUrl)
       THEN /\ loadPhase' = "called"
            /\ layerIndex' = legendIndex(merge, fcIdx)
            /\ request' = "pending"
            /\ localLegend' = Pending
            /\ symbologyLoad' = Pending
       ELSE /\ loadPhase' = "threw"
            /\ UNCHANGED <<layerIndex, request, localLegend, symbologyLoad>>
    /\ UNCHANGED <<serverLegend, fcUrl, fcIdx, fcSymbology>>
    /\ UNCHANGED <<renderer, searchVars, enhanceVars, zoomVars, legendVars, wmsVars, attribVars>>

\* the promise of mapServerToLocalLegend resolved: the then callback sets this.symbology
symbologySet ==
    /\ symbologyLoad = Pending
    /\ localLegend.state = "fulfilled"
    /\ fcSymbology' = makeSymbologyArray(calls)
    /\ symbologyLoad' = Fulfilled(Undefined)
    /\ UNCHANGED <<fcUrl, fcIdx, mergeAllLayers, loadPhase>>
    /\ UNCHANGED <<renderer, searchVars, enhanceVars, zoomVars, legendVars, wmsVars, mapVars,
                   attribVars>>

\* the promise of mapServerToLocalLegend rejected: so does the promise of loadSymbology
symbologyNotSet ==
    /\ symbologyLoad = Pending
    /\ localLegend.state = "rejected"
    /\ symbologyLoad' = Rejected(localLegend.value)
    /\ UNCHANGED <<fcUrl, fcIdx, mergeAllLayers, loadPhase, fcSymbology>>
    /\ UNCHANGED <<renderer, searchVars, enhanceVars, zoomVars, legendVars, wmsVars, mapVars,
                   attribVars>>

\* the url of the layer: none, that of a map server
LayerUrls == {Undefined, Str("http://server/MapServer")}
\* the index of a feature class: an integer in string format
FcIndexes == {Str("0"), Str("1")}

InitSymbology ==
    /\ serverLegend \in ServerLegends
    /\ layerIndex = Undefined
    /\ request = "idle"
    /\ localLegend = NoPromise
    /\ fcUrl \in LayerUrls
    /\ fcIdx \in FcIndexes
    /\ mergeAllLayers = FALSE
    /\ loadPhase = "idle"
    /\ fcSymbology = <<>>
    /\ symbologyLoad = NoPromise
    /\ AttribIdle
    /\ renderer = BlankRenderer
    /\ SearchIdle
    /\ EnhanceIdle
    /\ ZoomIdle
    /\ LegendIdle
    /\ WmsIdle

LoadSymbology == \E merge \in BOOLEAN : loadSymbology(merge)

NextSymbology ==
    \/ LoadSymbology
    \/ legendReceived
    \/ legendErrorReceived
    \/ requestFailed
    \/ symbologySet
    \/ symbologyNotSet
    \/ containerRemoved
    \/ errorLogged
    \/ ImageFetched
    \/ ImageFetchFailed
    \/ ImageLoaded
    \/ ImageLoadFailed

SpecSymbology == InitSymbology /\ [][NextSymbology]_vars

----------------------------------------------------------------------------
(* Claims about searchRenderer (C1 to C6), checked under SpecSearch *)

Called == pc \in {"getGraphicIcon", "getGraphicSymbol"}

\* the icon a caller sees for a stored icon: the empty container for none
ShownIcon(svgcode) == IF svgcode = Undefined THEN EmptySvg ELSE svgcode

\* searchRenderer returned the icon and the symbol of this branch
ReturnedBranch(info) ==
    /\ ~renderInfo.threw
    /\ renderInfo.symbol = info.symbol
    /\ renderInfo.svgcode = ShownIcon(info.svgcode)

\* searchRenderer returned the default icon and the default symbol
ReturnedDefault ==
    /\ ~renderInfo.threw
    /\ renderInfo.symbol = renderer.defaultSymbol
    /\ renderInfo.svgcode = ShownIcon(renderer.defaultsvgcode)

\* the string a field1 value is converted to: '' for null
Field1String(v) == IF v = Null THEN "" ELSE StringOf(v)

\* the strings of parts joined with ", "
RECURSIVE JoinCommaSpace(_)
JoinCommaSpace(parts) ==
    IF Len(parts) = 0 THEN ""
    ELSE IF Len(parts) = 1 THEN parts[1]
    ELSE parts[1] \o ", " \o JoinCommaSpace(Tail(parts))

\* the composite key of the attributes, with the field2 and field3 values
\* joined when with2 and with3 say so
CompositeKey(with2, with3) ==
    Str(JoinCommaSpace(<<Field1String(attributes.f1)>>
                       \o (IF with2 THEN <<StringOf(attributes.f2)>> ELSE <<>>)
                       \o (IF with3 THEN <<StringOf(attributes.f3)>> ELSE <<>>)))

\* C1: for every UniqueValue renderer and every attribute set, searchRenderer
\* returns the icon and symbol of the first branch whose value equals the
\* composite key of the attributes, and the default icon and symbol when no
\* branch's value equals it.  (Violated: with no field1 attribute it raises.)
C1_FirstMatchOrDefault ==
    (Called /\ renderer.type = UNIQUE_VALUE) =>
        LET uvis == renderer.uniqueValueInfos
            key == CompositeKey(Truthy(renderer.field2),
                                Truthy(renderer.field2) /\ Truthy(renderer.field3))
            matches == {i \in 1..Len(uvis) : uvis[i].value = key}
        IN  IF matches = {} THEN ReturnedDefault
            ELSE ReturnedBranch(uvis[CHOOSE i \in matches : \A j \in matches : i <= j])

\* the branches are sorted by ascending (strictly, or not) classMaxValue
AscendingBreaks(strict) ==
    LET cbis == renderer.classBreakInfos
    IN  \A i \in 1..(Len(cbis) - 1) :
            IF strict THEN cbis[i].classMaxValue.n < cbis[i + 1].classMaxValue.n
            ELSE cbis[i].classMaxValue.n <= cbis[i + 1].classMaxValue.n

\* the branches are sorted by strictly ascending classMaxValue and the first
\* classMaxValue is at least minValue
SortedBreaks ==
    LET cbis == renderer.classBreakInfos
    IN  /\ AscendingBreaks(TRUE)
        /\ Len(cbis) > 0 => renderer.minValue.n <= cbis[1].classMaxValue.n

\* the feature's value is the number v, as a number or as its decimal string
FeatureValueIs(v) ==
    attributes.f = v \/ attributes.f = Str(NumberToString(v))

\* the feature's value is a number, as a number or as a decimal string
FeatureNumbers == {v \in {Num(k) : k \in Numerals} : FeatureValueIs(v)}

\* C2: for a ClassBreaks renderer with strictly ascending classMaxValues, the
\* first at least minValue, a feature value equal to a branch's classMaxValue
\* returns that branch's icon and symbol (right-closed intervals).
C2_RightClosed ==
    (Called /\ renderer.type = CLASS_BREAKS /\ SortedBreaks) =>
        \A i \in 1..Len(renderer.classBreakInfos) :
            FeatureValueIs(renderer.classBreakInfos[i].classMaxValue)
                => ReturnedBranch(renderer.classBreakInfos[i])

\* a value equal to the first of two bounds got the first branch, not the second
C2_Witness ==
    /\ Called /\ renderer.type = CLASS_BREAKS /\ SortedBreaks
    /\ Len(renderer.classBreakInfos) = 2
    /\ FeatureValueIs(renderer.classBreakInfos[1].classMaxValue)
    /\ renderInfo.symbol = BranchSymbol(1)
    /\ renderInfo.svgcode = BranchIcon("all", 1)

\* the feature's value is below minValue, or exceeds the last classMaxValue
OutOfRange ==
    LET cbis == renderer.classBreakInfos
    IN  \E v \in FeatureNumbers :
            \/ v.n < renderer.minValue.n
            \/ Len(cbis) > 0 /\ v.n > cbis[Len(cbis)].classMaxValue.n

\* C3 as stated: for every ClassBreaks renderer, a value below minValue or
\* above the last branch's classMaxValue returns the default icon and symbol.
C3_OutOfRangeDefault ==
    (Called /\ renderer.type = CLASS_BREAKS /\ OutOfRange) => ReturnedDefault

\* C3 as amended: the same for every ClassBreaks renderer whose branches are
\* sorted by ascending classMaxValue (the value below minValue returns the
\* default whatever the order).
C3_OutOfRangeDefaultSorted ==
    (Called /\ renderer.type = CLASS_BREAKS) =>
        /\ (\E v \in FeatureNumbers : v.n < renderer.minValue.n) => ReturnedDefault
        /\ (OutOfRange /\ AscendingBreaks(FALSE)) => ReturnedDefault

\* a value above the last of two sorted bounds got the default symbol, and a
\* renderer with a default symbol has one
C3_Witness ==
    /\ Called /\ renderer.type = CLASS_BREAKS /\ AscendingBreaks(FALSE)
    /\ Len(renderer.classBreakInfos) = 2
    /\ \E v \in FeatureNumbers : v.n > renderer.classBreakInfos[2].classMaxValue.n
    /\ renderer.defaultSymbol # Undefined
    /\ renderInfo.symbol = renderer.defaultSymbol
    /\ renderInfo.svgcode = DefaultIcon("all")

\* C4: searchRenderer never fails: for every renderer and every attribute
\* mapping, a missing key field included, it returns an {icon, symbol} pair.
\* (Violated: undefined.toString() raises a TypeError.)
C4_NeverFails ==
    Called => (~renderInfo.threw /\ ret # TypeError)

\* the icon stored beside the symbol that searchRenderer returned
SelectedIcon ==
    LET infos == IF renderer.type = UNIQUE_VALUE THEN renderer.uniqueValueInfos
                 ELSE renderer.classBreakInfos
        hits == {i \in 1..Len(infos) : infos[i].symbol = renderInfo.symbol}
    IN  CASE renderer.type = SIMPLE -> renderer.svgcode
          [] renderer.type \in {UNIQUE_VALUE, CLASS_BREAKS} ->
               IF hits = {} THEN renderer.defaultsvgcode
               ELSE infos[CHOOSE i \in hits : TRUE].svgcode
          [] OTHER -> Undefined

\* C5: whenever getGraphicIcon returns, the icon is not undefined: for a
\* renderer of an unrecognized type, and when the selected branch or default
\* has no icon attached, it is the empty 32x32 container.
C5_IconNeverUndefined ==
    (pc = "getGraphicIcon" /\ ret # TypeError) =>
        /\ ret.t = "svg"
        /\ renderer.type \notin {SIMPLE, UNIQUE_VALUE, CLASS_BREAKS} => ret = Svg(32, "")
        /\ SelectedIcon = Undefined => ret = Svg(32, "")
        /\ SelectedIcon # Undefined => ret = SelectedIcon

\* getGraphicIcon matched a branch that has no icon and returned the empty container
C5_Witness ==
    /\ pc = "getGraphicIcon" /\ renderer.type = UNIQUE_VALUE
    /\ renderInfo.symbol = BranchSymbol(1)
    /\ renderer.uniqueValueInfos[1].svgcode = Undefined
    /\ ret = Svg(32, "")

\* the call built a key: the feature has a field1 attribute
KeyBuilt == Called /\ renderer.type = UNIQUE_VALUE /\ attributes.f1 # Undefined

----------------------------------------------------------------------------
(* Claims about enhanceRenderer (C7 to C10), checked under SpecEnhance *)

\* the branches of the renderer that get an icon for a label: the renderer
\* itself when it is simple
Branches ==
    CASE renderer.type = SIMPLE -> <<[label |-> renderer.label, svgcode |-> renderer.svgcode]>>
      [] renderer.type = UNIQUE_VALUE -> renderer.uniqueValueInfos
      [] renderer.type = CLASS_BREAKS -> renderer.classBreakInfos
      [] OTHER -> <<>>

\* the legend items of a label
ItemsOf(label) == {i \in 1..Len(legend) : legend[i].label = label}

\* the place of legend item i in the order the callbacks ran
PlaceOf(i) == CHOOSE k \in 1..Len(thenOrder) : thenOrder[k] = i

RECURSIVE ListOrderLookup(_)
ListOrderLookup(n) ==
    IF n = 0 THEN EmptyLookup
    ELSE storeLegendItem(ListOrderLookup(n - 1), legend[n])

\* no two legend items have the same label
DistinctLabels ==
    \A i, j \in 1..Len(legend) : legend[i].label = legend[j].label => i = j

\* C8 as stated: the icons attached are the same for every order the promises
\* complete in: they are those attached when they complete in list order.
C8_OrderIndependent ==
    enhancing = "resolved" =>
        renderer = enhanced(renderer, ListOrderLookup(Len(legend)))

\* C8 as amended: the same, for a legend whose labels are pairwise distinct.
C8_OrderIndependentDistinct ==
    (enhancing = "resolved" /\ DistinctLabels) =>
        renderer = enhanced(renderer, ListOrderLookup(Len(legend)))

\* two items of different labels resolved in the reverse of the list order
\* and each is on a branch
C8_Witness ==
    /\ enhancing = "resolved" /\ DistinctLabels
    /\ thenOrder = <<2, 1>>
    /\ Len(Branches) = 2
    /\ {Branches[1].svgcode, Branches[2].svgcode} = {LegendIcon(1), LegendIcon(2)}

\* the renderer carries no svg code
NoIconWritten ==
    /\ renderer.svgcode = Undefined
    /\ renderer.defaultsvgcode = Undefined
    /\ \A i \in 1..Len(renderer.uniqueValueInfos) :
          renderer.uniqueValueInfos[i].svgcode = Undefined
    /\ \A i \in 1..Len(renderer.classBreakInfos) :
          renderer.classBreakInfos[i].svgcode = Undefined

\* a legend item promise failed
SomeItemFailed == \E i \in DOMAIN legItem : legItem[i] \in {"rejected", "TypeError"}

\* C9: no svg code is written on the renderer before every legend item
\* promise has resolved, and once a legend item promise has failed the
\* returned promise rejects (it has, or it does at its next step, and it never
\* resolves) and the renderer is left without svg code.
C9_AllOrNothing ==
    /\ enhancing # "resolved" => NoIconWritten
    /\ enhancing = "resolved" => \A i \in DOMAIN legItem : legItem[i] = "fulfilled"
    /\ SomeItemFailed => /\ enhancing = "rejected" \/ ENABLED allRejected
                         /\ NoIconWritten

\* one item resolved and was stored, another failed, the returned promise is
\* rejected and the branch of the stored label has no icon
C9_Witness ==
    /\ enhancing = "rejected"
    /\ Len(thenOrder) = 1 /\ SomeItemFailed
    /\ \E b \in 1..Len(Branches) :
          /\ Branches[b].label = legend[thenOrder[1]].label
          /\ Branches[b].svgcode = Undefined

\* svgcode is an icon that the legend gives for the label: that of an item of
\* the label, undefined when the legend has no item of the label
FromLegend(svgcode, label) ==
    IF ItemsOf(label) = {} THEN svgcode = Undefined
    ELSE \E i \in ItemsOf(label) : svgcode = legend[i].svgcode

\* the renderer has a default label (an empty label is none)
HasDefaultLabel == renderer.defaultLabel \notin {Undefined, Null, Str("")}

\* C10: after enhanceRenderer resolves, a Simple renderer carries the icon the
\* legend gives for its label; a UniqueValue or ClassBreaks renderer carries
\* on every branch the icon the legend gives for the branch's label, and a
\* default icon, taken from the legend, exactly when it has a default label.
C10_Enhanced ==
    enhancing = "resolved" =>
        /\ \A b \in 1..Len(Branches) : FromLegend(Branches[b].svgcode, Branches[b].label)
        /\ renderer.type \in {UNIQUE_VALUE, CLASS_BREAKS} =>
              IF HasDefaultLabel
              THEN FromLegend(renderer.defaultsvgcode, renderer.defaultLabel)
              ELSE renderer.defaultsvgcode = Undefined
        /\ renderer.type \notin {SIMPLE, UNIQUE_VALUE, CLASS_BREAKS} => NoIconWritten

\* a resolved renderer with two branches of different labels, each with the
\* icon of its legend item, and a default icon for its default label
C10_Witness ==
    /\ enhancing = "resolved" /\ renderer.type = CLASS_BREAKS
    /\ Len(legend) = 2 /\ Len(Branches) = 2
    /\ Branches[1].label = legend[2].label /\ Branches[1].svgcode = LegendIcon(2)
    /\ Branches[2].label = legend[1].label /\ Branches[2].svgcode = LegendIcon(1)
    /\ HasDefaultLabel /\ renderer.defaultsvgcode \in {LegendIcon(1), LegendIcon(2)}

----------------------------------------------------------------------------
(* Claims about getZoomLevel (C11 to C14), checked under SpecZoom *)

\* the levels (counted from 0) whose scale is at least the scale limit
AtLeastLimit == {i \in 0..(Len(lods) - 1) : scaleOf(i) >= maxScale}

\* the scales of the list decrease strictly
StrictlyDecreasing == \A i \in 1..(Len(lods) - 1) : lods[i] > lods[i + 1]

\* the loop ran more often than the list has levels and has not found its level
Spinning == zpc = "while" /\ ~found /\ iter > Len(lods)

\* C11: called with a scale limit of 0, getZoomLevel returns the last index of
\* the list (length - 1), whatever the (non-empty) list.
C11_NoLimitLastLod ==
    (zpc # "idle" /\ maxScale = 0) => (zpc = "returned" /\ zret = Len(lods) - 1)

\* getZoomLevel returned the last index of a list of several levels for the limit 0
C11_Witness == zpc = "returned" /\ maxScale = 0 /\ Len(lods) > 1 /\ zret = Len(lods) - 1

\* C12: for a list of strictly decreasing scales and a nonzero scale limit
\* that some level reaches, getZoomLevel returns the greatest index whose
\* scale is at least the limit, the last index of the list included.
C12_TightestLod ==
    (zpc = "returned" /\ maxScale # 0 /\ StrictlyDecreasing /\ AtLeastLimit # {})
        => \A i \in AtLeastLimit : i <= zret /\ zret \in AtLeastLimit

\* C13: for a list of 1 or 2 levels and any scale limit, getZoomLevel ends
\* (it neither throws nor loops on) and returns an index of the list.
C13_ShortLists ==
    Len(lods) \in {1, 2}
        => /\ zpc # "threw"
           /\ ~Spinning
           /\ zpc = "returned" => zret \in 0..(Len(lods) - 1)

\* C14: for a list of at least 3 levels and any scale limit, the loop ends:
\* it does not run more often than the list has levels without reaching
\* highLod = lowLod + 1.
C14_LoopEnds == Len(lods) >= 3 => ~Spinning

----------------------------------------------------------------------------
(* Claims about symbolToLegend and rendererToLegend (C15 to C17, C19), *)
(* checked under SpecLegend *)

\* the promise that call i of symbolToLegend returned has settled
Settled(i) == item[i].state \in {"fulfilled", "rejected"}

\* the legend entry of call i with the given content of its icon
EntryOf(i, content) == Fulfilled([label |-> calls[i].label, svgcode |-> drawSvg(content)])

\* the symbol has no drawing routine: the text symbol, a type outside the table
NoRoutine(symbol) == symbol.type = "esriTS" \/ symbol.type \notin SymbolTypes

\* C15: every container that symbolToLegend appended to the body is removed
\* from it by the time the promise it returned settles, whether the drawing
\* succeeded or failed.
C15_ContainerRemoved == \A i \in DOMAIN item : Settled(i) => i \notin body

\* C16: rasterizing a symbol whose type has no drawing routine (the text
\* symbol, a type outside the table) does not fail: the call returns a promise
\* and the promise resolves with the label and an empty container icon.
C16_NoRoutineEmptyIcon ==
    \A i \in DOMAIN item :
        NoRoutine(calls[i].symbol)
            => /\ item[i] # NoPromise
               /\ Settled(i) => item[i] = EntryOf(i, "")

\* the image of the picture symbol of call i could not be fetched or loaded
ImageFailed(i) == drawing[i].state \in {"fetchFailed", "loadFailed"}

\* C17: when the image fetch of a picture symbol fails, its promise still
\* resolves with the symbol's label and a blank icon, and the entries of the
\* other branches of the same call of rendererToLegend are what they are
\* without the failure.
C17_FetchFailureBlankIcon ==
    \A i \in DOMAIN item :
        ImageFailed(i)
            => /\ Settled(i) => item[i] = EntryOf(i, "")
               /\ \A j \in DOMAIN item :
                      (j # i /\ drawing[j].state = "drawn" /\ Settled(j))
                          => item[j] = EntryOf(j, drawing[j].content)

\* the branches of a renderer
BranchesOf(r) ==
    CASE r.type = UNIQUE_VALUE -> r.uniqueValueInfos
      [] r.type = CLASS_BREAKS -> r.classBreakInfos
      [] OTHER -> <<>>

\* the call of symbolToLegend at place i is for branch i, and the one after
\* the branches for the default symbol
InBranchOrder(r) ==
    /\ \A i \in 1..Len(BranchesOf(r)) :
           calls'[i] = [symbol |-> BranchesOf(r)[i].symbol, label |-> BranchesOf(r)[i].label]
    /\ Len(calls') > Len(BranchesOf(r)) => calls'[Len(calls')].symbol = r.defaultSymbol

\* C19: rendererToLegend on a UniqueValue or ClassBreaks renderer returns a
\* legend {layers: [{layerId: index, legend}]} whose list has exactly one entry
\* per branch, in the order of the branches, followed by one entry for the
\* default symbol when the renderer has one; on a Simple renderer the list has
\* exactly one entry.
C19_OneEntryPerBranch ==
    [][\A index \in LegendIndexes :
          (rendererToLegend(index) /\ renderer.type \in {SIMPLE, UNIQUE_VALUE, CLASS_BREAKS})
              => /\ toLegend' = "returned"
                 /\ layerId' = index
                 /\ \A i \in DOMAIN item' : item'[i] # NoPromise
                 /\ Len(item') = IF renderer.type = SIMPLE THEN 1
                                 ELSE Len(BranchesOf(renderer))
                                      + (IF renderer.defaultSymbol = Undefined THEN 0 ELSE 1)
                 /\ renderer.type = SIMPLE
                        => calls' = <<[symbol |-> renderer.symbol, label |-> renderer.label]>>
                 /\ renderer.type # SIMPLE => InBranchOrder(renderer)]_vars

----------------------------------------------------------------------------
(* Claim about generateWMSSymbology (C18), checked under SpecWMS *)

\* C18: the promise of generateWMSSymbology always resolves with a legend
\* entry {name, svgcode}: with the wrapped image when the image loads, with
\* an empty icon when no image is given or when the image fails to load.
C18_AlwaysEntry ==
    wmsPhase = "done"
        => /\ wmsPromise = Fulfilled(symbologyItem)
           /\ symbologyItem.name = wmsName
           /\ symbologyItem.svgcode.t = "svg"

----------------------------------------------------------------------------
(* Claim about mapServerToLocalLegend (C20), checked under SpecMapServer *)

\* the branch is the picture marker of the legend entry
PictureBranchOf(branch, ll) ==
    /\ branch.label = ll.label
    /\ branch.symbol.type = "esriPMS"
    /\ branch.symbol.imageData = ll.imageData
    /\ branch.symbol.contentType = ll.contentType

\* how many legend entries the layers before place p hold
RECURSIVE EntriesBefore(_)
EntriesBefore(p) ==
    IF p <= 1 THEN 0 ELSE EntriesBefore(p - 1) + Len(serverLegend[p - 1].legend)

\* the branches are those of every layer, layer after layer
BranchesOfAllLayers(infos) ==
    /\ Len(infos) = EntriesBefore(Len(serverLegend) + 1)
    /\ \A p \in DOMAIN serverLegend : \A e \in DOMAIN serverLegend[p].legend :
           PictureBranchOf(infos[EntriesBefore(p) + e], serverLegend[p].legend[e])

\* the branches are those of the layer at place p, and no other
BranchesOfLayer(infos, p) ==
    /\ Len(infos) = Len(serverLegend[p].legend)
    /\ \A e \in DOMAIN serverLegend[p].legend :
           PictureBranchOf(infos[e], serverLegend[p].legend[e])

\* C20: in mapServerToLocalLegend, when layerIndex is omitted the fake
\* UniqueValue renderer has one picture-marker branch per legend entry of
\* every sub-layer of the server legend, in sub-layer order; when layerIndex is
\* given it has only the branches of the sub-layer whose layerId equals
\* layerIndex.
C20_FakeRendererBranches ==
    request = "resolved"
        => /\ layerIndex = Undefined
               => /\ renderer.type = UNIQUE_VALUE
                  /\ BranchesOfAllLayers(renderer.uniqueValueInfos)
           /\ \A p \in DOMAIN serverLegend :
                  (layerIndex # Undefined /\ serverLegend[p].layerId = layerIndex)
                      => /\ renderer.type = UNIQUE_VALUE
                         /\ BranchesOfLayer(renderer.uniqueValueInfos, p)

\* the fake renderer was made of the second of two sub-layers that both hold
\* legend entries
C20_Witness ==
    /\ request = "resolved"
    /\ Len(serverLegend) = 2
    /\ serverLegend[1].legend # <<>>
    /\ serverLegend[2].legend # <<>>
    /\ serverLegend[2].layerId = layerIndex
    /\ BranchesOfLayer(renderer.uniqueValueInfos, 2)

----------------------------------------------------------------------------
(* Claim about the failures of mapServerToLocalLegend (C21), checked under *)
(* SpecMapServer *)

\* no fake renderer was made and no symbol was drawn
NothingDrawn == renderer = BlankRenderer /\ LegendIdle

\* C21: mapServerToLocalLegend rejects with the error when the request of the
\* legend fails, and with the error field of the response when it has one; in
\* both cases no fake renderer is made and no rasterization is started.
C21_RequestFailureRejects ==
    /\ request = "failed" => (localLegend = Rejected(RequestError) /\ NothingDrawn)
    /\ request = "resolved with error" => (localLegend = Rejected(ServerError) /\ NothingDrawn)

\* the response of a server that holds legend entries had an error field, and
\* the promise was rejected with it
C21_Witness ==
    /\ request = "resolved with error"
    /\ localLegend = Rejected(ServerError)
    /\ \E p \in DOMAIN serverLegend : serverLegend[p].legend # <<>>

----------------------------------------------------------------------------
(* Claims about the promises BasicFC caches (C22 to C24), checked under *)
(* SpecAttribs *)

\* the calls of a function that the step adds
newCalls(op) ==
    {c \in DOMAIN fcCalls' : c > Len(fcCalls) /\ fcCalls'[c].op = op}

\* a promise of getFormattedAttributes was rejected because a request it
\* waited for failed
FailedByRequest(j) ==
    /\ formatted[j].promise.state = "rejected"
    /\ \/ requests[formatted[j].aData].state = "failed"
       \/ requests[formatted[j].lData].state = "failed"

\* C22: after a call of getFormattedAttributes has failed because a request
\* failed (of the attributes or of the layer data), the cached promise is
\* dropped and a later call issues the failed request again: the promise a
\* call makes never waits for a request that has failed already.
C22_FailedRequestIssuedAgain ==
    [][/\ cached(formattedAttributes')
          => formatted'[formattedAttributes'].promise.state # "rejected"
       /\ Len(formatted') > Len(formatted) /\ (\E j \in DOMAIN formatted : FailedByRequest(j))
          => LET f == formatted'[Len(formatted')]
             IN  /\ requests'[f.aData].state # "failed"
                 /\ requests'[f.lData].state # "failed"]_vars

\* C23: after the request of getAttribs has failed, the cached promise is
\* removed from the layer package, so the next call of getAttribs issues a new
\* request and never returns the rejected promise of the failed one.
C23_FailedPromiseNotReturned ==
    [][/\ cached(attribData') => requests'[attribData'].state # "failed"
       /\ \A c \in newCalls("getAttribs") :
              /\ requests'[fcCalls'[c].promise].state # "failed"
              /\ (\E k \in DOMAIN requests :
                      requests[k].by = "getAttribs" /\ requests[k].state = "failed")
                 /\ (\A k \in DOMAIN requests :
                         requests[k].by = "getAttribs" => requests[k].state = "failed")
                 => /\ fcCalls'[c].promise = Len(requests) + 1
                    /\ requests'[Len(requests) + 1] = webRequest("getAttribs")]_vars

\* getAttribs was called after its request had failed, and returned the
\* promise of a new request
C23_Witness ==
    \E c \in DOMAIN fcCalls :
        /\ fcCalls[c].op = "getAttribs"
        /\ ~fcCalls[c].inner
        /\ \E k \in 1..(fcCalls[c].promise - 1) :
               requests[k].by = "getAttribs" /\ requests[k].state = "failed"

requestsBy(op) == {k \in DOMAIN requests : requests[k].by = op}
callsOf(op) == {c \in DOMAIN fcCalls : fcCalls[c].op = op}
NoRequestFailed == \A k \in DOMAIN requests : requests[k].state # "failed"

\* C24: as long as no request fails, however the calls of getAttribs (and of
\* getLayerData) interleave with the settling of the requests, the web
\* request is issued exactly once and every call returns the same promise.
C24_OneRequest ==
    NoRequestFailed
    => \A op \in {"getAttribs", "getLayerData"} :
           /\ callsOf(op) # {} => Cardinality(requestsBy(op)) = 1
           /\ \A c \in callsOf(op) : requestsBy(op) = {fcCalls[c].promise}

\* getAttribs was called while its request was in flight and again after it
\* had succeeded
C24_Witness ==
    /\ NoRequestFailed
    /\ \E c, d, e \in callsOf("getAttribs") :
           /\ c < d
           /\ d < e
           /\ requests[fcCalls[e].promise].state = "resolved"
    /\ Cardinality(callsOf("getAttribs")) = 3

----------------------------------------------------------------------------
(* Claim about the icon of the default symbol (C25), checked under SpecIcons *)

\* the attributes of the call match no branch of the renderer
MatchesNoBranch ==
    IF renderer.type = UNIQUE_VALUE
    THEN \A i \in DOMAIN renderer.uniqueValueInfos :
             renderer.uniqueValueInfos[i].value # attributes.f1
    ELSE \A i \in DOMAIN renderer.classBreakInfos :
             renderer.classBreakInfos[i].classMaxValue.n < attributes.f.n

\* C25: for a UniqueValue or ClassBreaks renderer that has a default symbol,
\* once rendererToLegend has made the legend and enhanceRenderer has enhanced
\* the renderer with it, getGraphicIcon returns the icon that was made for
\* the default symbol for attributes that match no branch, whether the
\* renderer has a default label or not.
C25_DefaultIcon ==
    (/\ pc = "getGraphicIcon"
     /\ enhancing = "resolved"
     /\ renderer.type \in {UNIQUE_VALUE, CLASS_BREAKS}
     /\ renderer.defaultSymbol # Undefined
     /\ MatchesNoBranch)
    => ret = item[Len(item)].value.svgcode

----------------------------------------------------------------------------
(* Claim about BasicFC.loadSymbology (C26), checked under SpecSymbology *)

\* the layers of the server legend whose layerId is the integer that the
\* index of the feature class denotes
LayersOfIndex ==
    {p \in DOMAIN serverLegend : serverLegend[p].layerId = parseFloat(fcIdx)}

\* the labels of the legend entries of a layer of the server
LabelsOfLayer(p) ==
    [e \in DOMAIN serverLegend[p].legend |-> serverLegend[p].legend[e].label]

\* the labels of the legend entries of the layers from p on
RECURSIVE LabelsFrom(_)
LabelsFrom(p) ==
    IF p > Len(serverLegend) THEN <<>> ELSE LabelsOfLayer(p) \o LabelsFrom(p + 1)

\* the promise of loadSymbology resolved and the symbology holds these entries
LoadedWith(labels) ==
    symbologyLoad.state = "fulfilled" /\ fcSymbology = labels

\* C26: loadSymbology with mergeAllLayers false, on a feature class whose
\* index is the string form of an integer and a server legend that has a
\* sub-layer with that integer as layerId, resolves with the symbology set to
\* that sub-layer's legend entries; with mergeAllLayers true it is set to the
\* entries of all sub-layers.
C26_SymbologyLoaded ==
    (request = "resolved" /\ symbologyLoad # Pending)
    => IF mergeAllLayers THEN LoadedWith(LabelsFrom(1))
       ELSE \A p \in LayersOfIndex : LoadedWith(LabelsOfLayer(p))

====
